---- MODULE Spec2Model ----
(***************************************************************************)
(* Routing and dispatch core of gotham: the router builder                 *)
(* (src/src/router/builder/mod.rs), the middleware contract                *)
(* (src/src/middleware/mod.rs) and the workers job dispatch                *)
(* (src/middleware/under_development/workers/src/job.rs).                  *)
(*                                                                         *)
(* Two state machines share the module: Spec builds a router through the   *)
(* builder and serves one request through tree matching, extraction, the   *)
(* pipeline chain and the handler; WorkerSpec runs a handler that hands a  *)
(* job to the workers pool with run_with_worker.                           *)
(***************************************************************************)
EXTENDS Integers, Sequences, FiniteSets, TLC

\* ------------------------------------------------------------------ bounds

\* The closure given to build_router registers at most MaxRoutes routes.
MaxRoutes == 3

\* The pipeline chain given to build_router names at most MaxChain pipelines.
MaxChain == 2

\* ------------------------------------------------------------- vocabulary

Methods == {"Get", "Post", "Put"}

\* Segment descriptors of the tree (router::tree::node::SegmentType).
Static(s) == <<"Static", s>>
Dynamic(n) == <<"Dynamic", n>>
Glob(n) == <<"Glob", n>>

\* A path pattern as the builder receives it, cut at its slashes: each piece
\* is its sigil ("" for literal text, ":" or "*") and its text.
Lit(s) == <<"", s>>
Dyn(n) == <<":", n>>
Star(n) == <<"*", n>>

\* "literal text, :name dynamic, *name glob"
ParseSegment(piece) ==
    IF piece[1] = ":" THEN Dynamic(piece[2])
    ELSE IF piece[1] = "*" THEN Glob(piece[2])
    ELSE Static(piece[2])

ParsePattern(pattern) == [i \in 1..Len(pattern) |-> ParseSegment(pattern[i])]

\* ---------------------------------------------------------------- state

VARIABLES
    tree,            \* TreeBuilder / Tree: node (its segments from the root) -> routes
    builders,        \* stack of RouterBuilder / ScopeBuilder values, innermost last
    single,          \* the SingleRouteBuilder in flight, or None
    router_built,    \* build_router has returned the Router
    pipeline_chain,  \* the chain argument of build_router
    pipelines,       \* the PipelineSet argument of build_router
    registered,      \* the route definitions the closure has called to(..) for
    finalizer,       \* the response extenders registered, in order: <<type, extender>>
    request,         \* the request being served: <<>> or <<[method, path, query]>>
    pc,              \* where the request is: idle, chain, lazy, done, failed, panicked
    state,           \* the request's State: [id, data]
    matched,         \* the outcome of tree matching and route selection
    cont,            \* the continuation: the middleware and the handler still to run
    trace,           \* what has started executing for the request, in order
    response,        \* <<>> or <<the response>>
    failure,         \* <<>> or <<the error the request's future failed with>>
    extended,        \* the extenders applied to the response, in order
    finalized        \* how many times the response finalizer was invoked for the request

bvars == <<tree, builders, single, router_built, pipeline_chain, pipelines, registered,
           finalizer>>

rvars == <<request, pc, state, matched, cont, trace, response, failure, extended, finalized>>

\* The workers crate: a handler that calls run_with_worker.
VARIABLES
    wreq,                \* how many requests the handler has been called for
    wjob,                \* the Job the handler submits
    wpc,                 \* where the handler is: idle, handler, submitted, resolved, responded, panicked
    caller_state,        \* the State while the handler holds it: <<>> or <<State>>
    future_state,        \* the State while the worker future holds it
    continuation_state,  \* the State once the future has handed it to the continuation
    prepared,            \* the PreparedJob moved to the pool: <<>> or <<it>>
    job_status,          \* None, Prepared, Running, Completed
    job_result,          \* <<>> or <<what the prepared job's run returned>>
    heap,                \* the Arc<Mutex<usize>> cells: reference -> value
    wresult,             \* what the WorkerFuture resolved to, in order
    wresponse,           \* <<>> or <<the handler's response>>
    abandoned,           \* the jobs on the pool whose future was dropped, oldest first
    discarded            \* how many results of such jobs the pool has discarded

\* The pool's account of the jobs nobody awaits.
cvars == <<abandoned, discarded>>

wvars == <<wreq, wjob, wpc, caller_state, future_state, continuation_state,
           prepared, job_status, job_result, heap, wresult, wresponse, cvars>>

\* ------------------------------------------------------ the pipeline set

\* The pipelines added to the pipeline set before build_router is called:
\* handle -> the pipeline's middleware, in order.
PipelineSet ==
    [P1 |-> <<"ConditionalMiddleware">>,
     P2 |-> <<"NoopMiddleware", "MiddlewareWithStateData">>,
     P3 |-> <<"AsyncMiddleware">>]

Handles == DOMAIN PipelineSet

\* The pipeline chains build_router may be given: handles, none repeated.
Chains ==
    {c \in UNION {[1..n -> Handles] : n \in 0..MaxChain} :
        \A i, j \in 1..Len(c) : i # j => c[i] # c[j]}

\* --------------------------------------------------- the routes to draw

NoopPathExtractor == "NoopPathExtractor"
NoopQueryStringExtractor == "NoopQueryStringExtractor"

\* The calls the closure given to build_router may make, one record per
\* route: scope(prefix, ..) when scope is not empty, get/post(pattern),
\* with_path_extractor / with_query_string_extractor, to(handler).
\* The first four are those of tests::build_router_test.
RouteDefs ==
    { [scope |-> <<>>, method |-> "Get", pattern |-> <<>>,
       pe |-> NoopPathExtractor, qse |-> NoopQueryStringExtractor, handler |-> "index"],
      [scope |-> <<>>, method |-> "Get", pattern |-> <<Lit("hello"), Dyn("name")>>,
       pe |-> "HelloParams", qse |-> NoopQueryStringExtractor, handler |-> "hello"],
      [scope |-> <<>>, method |-> "Get", pattern |-> <<Lit("add")>>,
       pe |-> NoopPathExtractor, qse |-> "AddParams", handler |-> "add"],
      [scope |-> <<Lit("api")>>, method |-> "Post", pattern |-> <<Lit("submit")>>,
       pe |-> NoopPathExtractor, qse |-> NoopQueryStringExtractor, handler |-> "submit"],
      [scope |-> <<>>, method |-> "Post", pattern |-> <<Lit("add")>>,
       pe |-> NoopPathExtractor, qse |-> NoopQueryStringExtractor, handler |-> "submit"],
      [scope |-> <<>>, method |-> "Get", pattern |-> <<Lit("a"), Dyn("x"), Lit("b")>>,
       pe |-> NoopPathExtractor, qse |-> NoopQueryStringExtractor, handler |-> "index"],
      [scope |-> <<>>, method |-> "Get", pattern |-> <<Lit("files"), Star("rest")>>,
       pe |-> NoopPathExtractor, qse |-> NoopQueryStringExtractor, handler |-> "index"] }

\* The node a route definition ends at.
NodeOf(d) == ParsePattern(d.scope) \o ParsePattern(d.pattern)

\* ------------------------------------------------------------ the builder

Prefixes(node) == {SubSeq(node, 1, k) : k \in 0..Len(node)}

\* TreeBuilder: descending to a node creates the nodes missing on the way.
WithNodes(t, node) ==
    [n \in DOMAIN t \cup Prefixes(node) |-> IF n \in DOMAIN t THEN t[n] ELSE <<>>]

\* NodeBuilder::add_route: the route is appended to the node's routes.
add_route(t, node, route) == [t EXCEPT ![node] = Append(@, route)]

Top == builders[Len(builders)]

\* The definitions the builder in flight may still become.
DefsFor(b) ==
    {d \in RouteDefs \ registered :
        /\ builders[Len(builders)].node_builder \o ParsePattern(d.pattern) = b.node_builder
        /\ builders[Len(builders)].node_builder = ParsePattern(d.scope)
        /\ d.method = b.matcher}

\* build_router, up to the call of the closure: the RouterBuilder over the
\* tree's root, with the chain and the pipeline set it was given.
RouterBuilder(chain, set) ==
    [kind |-> "RouterBuilder", node_builder |-> <<>>, pipeline_chain |-> chain, pipelines |-> set]

\* A ScopeBuilder that starts from an empty chain, not the enclosing one.
ScopeBuilder_empty_chain(outer, prefix) ==
    [kind |-> "ScopeBuilder",
     node_builder |-> outer.node_builder \o ParsePattern(prefix),
     pipeline_chain |-> <<>>,
     pipelines |-> outer.pipelines]

\* DrawRoutes::scope: a ScopeBuilder over the node of the prefix, with the
\* enclosing builder's chain and pipeline set.
ScopeBuilder(outer, prefix) ==
    [kind |-> "ScopeBuilder",
     node_builder |-> outer.node_builder \o ParsePattern(prefix),
     pipeline_chain |-> outer.pipeline_chain,
     pipelines |-> outer.pipelines]

\* DrawRoutes::get / post: the SingleRouteBuilder for method and pattern.
SingleRouteBuilder(outer, method, pattern) ==
    [node_builder |-> outer.node_builder \o ParsePattern(pattern),
     matcher |-> method,
     pipeline_chain |-> outer.pipeline_chain,
     pipelines |-> outer.pipelines,
     delegation |-> "Internal",
     pe |-> NoopPathExtractor,
     qse |-> NoopQueryStringExtractor]

\* coerce that marks the new builder's route as delegating to another router.
coerce_external(b, npe, nqse) ==
    [node_builder |-> b.node_builder,
     matcher |-> b.matcher,
     pipeline_chain |-> b.pipeline_chain,
     pipelines |-> b.pipelines,
     delegation |-> "External",
     pe |-> npe,
     qse |-> nqse]

\* SingleRouteBuilder::coerce: every field moves over, the extractor types
\* are the new ones.
coerce(b, npe, nqse) ==
    [node_builder |-> b.node_builder,
     matcher |-> b.matcher,
     pipeline_chain |-> b.pipeline_chain,
     pipelines |-> b.pipelines,
     delegation |-> b.delegation,
     pe |-> npe,
     qse |-> nqse]

with_path_extractor(b, npe) == coerce(b, npe, b.qse)

with_query_string_extractor(b, nqse) == coerce(b, b.pe, nqse)

\* DispatcherImpl::new
DispatcherImpl(new_handler, chain, set) ==
    [new_handler |-> new_handler, pipeline_chain |-> chain, pipelines |-> set]

\* RouteImpl::new
RouteImpl(matcher, dispatcher, pe, qse, delegation) ==
    [matcher |-> matcher, dispatcher |-> dispatcher,
     extractors |-> [pe |-> pe, qse |-> qse], delegation |-> delegation]

\* to_new_handler giving the dispatcher the chain twice over.
to_new_handler_chain_twice(t, b, new_handler) ==
    add_route(t, b.node_builder,
              RouteImpl(b.matcher,
                        DispatcherImpl(new_handler, b.pipeline_chain \o b.pipeline_chain,
                                       b.pipelines),
                        b.pe, b.qse, b.delegation))

\* to_new_handler adding the route to the root node, not to the builder's.
to_new_handler_at_root(t, b, new_handler) ==
    add_route(t, <<>>,
              RouteImpl(b.matcher,
                        DispatcherImpl(new_handler, b.pipeline_chain, b.pipelines),
                        b.pe, b.qse, b.delegation))

\* to_new_handler building the route with a GET matcher, not the builder's.
to_new_handler_get_only(t, b, new_handler) ==
    add_route(t, b.node_builder,
              RouteImpl("Get",
                        DispatcherImpl(new_handler, b.pipeline_chain, b.pipelines),
                        b.pe, b.qse, b.delegation))

\* to_new_handler putting the route in front of the node's routes.
to_new_handler_in_front(t, b, new_handler) ==
    [t EXCEPT ![b.node_builder] =
        <<RouteImpl(b.matcher,
                    DispatcherImpl(new_handler, b.pipeline_chain, b.pipelines),
                    b.pe, b.qse, b.delegation)>> \o @]

\* SingleRouteBuilder::to_new_handler: the tree after the route is added.
to_new_handler(t, b, new_handler) ==
    add_route(t, b.node_builder,
              RouteImpl(b.matcher,
                        DispatcherImpl(new_handler, b.pipeline_chain, b.pipelines),
                        b.pe, b.qse, b.delegation))

Scope(prefix) ==
    /\ ~router_built
    /\ single = <<>>
    /\ Len(builders) = 1
    /\ prefix # <<>>
    /\ Cardinality(registered) < MaxRoutes
    /\ \E d \in RouteDefs \ registered : d.scope = prefix
    /\ builders' = Append(builders, ScopeBuilder(Top, prefix))
    /\ tree' = WithNodes(tree, ScopeBuilder(Top, prefix).node_builder)
    /\ UNCHANGED <<single, router_built, pipeline_chain, pipelines, registered, finalizer,
                   rvars, wvars>>

EndScope ==
    /\ ~router_built
    /\ single = <<>>
    /\ Len(builders) > 1
    /\ builders' = SubSeq(builders, 1, Len(builders) - 1)
    /\ UNCHANGED <<tree, single, router_built, pipeline_chain, pipelines, registered, finalizer,
                   rvars, wvars>>

Draw(d) ==
    /\ ~router_built
    /\ single = <<>>
    /\ Cardinality(registered) < MaxRoutes
    /\ Top.node_builder = ParsePattern(d.scope)
    /\ d \notin registered
    /\ single' = <<SingleRouteBuilder(Top, d.method, d.pattern)>>
    /\ tree' = WithNodes(tree, SingleRouteBuilder(Top, d.method, d.pattern).node_builder)
    /\ UNCHANGED <<builders, router_built, pipeline_chain, pipelines, registered, finalizer,
                   rvars, wvars>>

WithPathExtractor(npe) ==
    /\ single # <<>>
    /\ npe # single[1].pe
    /\ \E d \in DefsFor(single[1]) : d.pe = npe
    /\ single' = <<with_path_extractor(single[1], npe)>>
    /\ UNCHANGED <<tree, builders, router_built, pipeline_chain, pipelines, registered, finalizer,
                   rvars, wvars>>

WithQueryStringExtractor(nqse) ==
    /\ single # <<>>
    /\ nqse # single[1].qse
    /\ \E d \in DefsFor(single[1]) : d.qse = nqse
    /\ single' = <<with_query_string_extractor(single[1], nqse)>>
    /\ UNCHANGED <<tree, builders, router_built, pipeline_chain, pipelines, registered, finalizer,
                   rvars, wvars>>

\* SingleRouteBuilder::to: to_new_handler(move || Ok(handler))
To(d) ==
    /\ single # <<>>
    /\ d \in DefsFor(single[1])
    /\ d.pe = single[1].pe
    /\ d.qse = single[1].qse
    /\ tree' = to_new_handler(tree, single[1], d.handler)
    /\ registered' = registered \cup {d}
    /\ single' = <<>>
    /\ UNCHANGED <<builders, router_built, pipeline_chain, pipelines, finalizer, rvars, wvars>>

\* build_router returns: Router::new(tree_builder.finalize(), ..).
Finalize ==
    /\ ~router_built
    /\ single = <<>>
    /\ Len(builders) = 1
    /\ router_built' = TRUE
    /\ UNCHANGED <<tree, builders, single, pipeline_chain, pipelines, registered, finalizer,
                   rvars, wvars>>

\* ----------------------------------------------------------- the requests

\* A request's path cut at its slashes; its query string cut at "&" and "=":
\* <<>> when the URI has no query, else <<the pairs <<key, value>>>>, a value
\* being its characters.
Req(method, path, query) == [method |-> method, path |-> path, query |-> query]

NoQuery == <<>>

Uris ==
    { <<<<>>, NoQuery>>,                                             \* /
      <<<<"api", "submit">>, NoQuery>>,                              \* /api/submit
      <<<<"hello", "world">>, NoQuery>>,                             \* /hello/world
      <<<<"add">>, <<<< <<"x", <<"1", "6">>>>, <<"y", <<"7", "1">>>> >>>>>>,       \* /add?x=16&y=71
      <<<<"add">>, <<<< <<"x", <<"a", "b", "c">>>>, <<"y", <<"7", "1">>>> >>>>>>,  \* /add?x=abc&y=71
      <<<<"add">>, <<<< <<"y", <<"0", "7">>>>, <<"x", <<"9">>>>, <<"x", <<"5">>>> >>>>>>,  \* /add?y=07&x=9&x=5
      <<<<"add">>, NoQuery>>,                                        \* /add
      <<<<"a", "42", "b">>, NoQuery>>,                               \* /a/42/b
      <<<<"a", "b">>, NoQuery>>,                                     \* /a/b
      <<<<"files", "a", "b", "c">>, NoQuery>>,                       \* /files/a/b/c
      <<<<"files">>, NoQuery>>,                                      \* /files/
      <<<<"nope">>, NoQuery>> }                                      \* /nope

Requests == {Req(m, u[1], u[2]) : m \in Methods, u \in Uris}

\* ------------------------------------------------------------- the State

EmptyData == [t \in {} |-> 0]

\* State::new
NewState(id) == [id |-> id, data |-> EmptyData]

\* State::put
put(data, T, v) == [t \in DOMAIN data \cup {T} |-> IF t = T THEN v ELSE data[t]]

\* State::take (of a type that is there)
take(data, T) == [t \in DOMAIN data \ {T} |-> data[t]]

has(data, T) == T \in DOMAIN data

\* ------------------------------------------------------ tree matching

EmptyMapping == [n \in {} |-> <<>>]

Routable(t, node) == Len(t[node]) > 0

ChildrenOf(t, node, kind) ==
    {c \in DOMAIN t : /\ Len(c) = Len(node) + 1
                      /\ SubSeq(c, 1, Len(node)) = node
                      /\ c[Len(c)][1] = kind}

\* The values a segment captured are appended under its name.
AddCapture(caps, name, vals) ==
    [n \in DOMAIN caps \cup {name} |->
        IF n = name THEN (IF n \in DOMAIN caps THEN caps[n] ELSE <<>>) \o vals
        ELSE caps[n]]

\* The depth-first walk: every routable node the segments lead to, with its
\* captures, in the order the walk reaches them: the literal child first,
\* then the dynamic child, then the glob child, which takes all the remaining
\* segments first and then fewer.
RECURSIVE Traverse(_, _, _, _), TraverseDynamic(_, _, _, _)
RECURSIVE TraverseGlob(_, _, _, _), GlobLengths(_, _, _, _, _)
\* The walk trying the dynamic child before the literal one.
Traverse_dynamic_first(t, node, segs, caps) ==
    LET here == IF segs = <<>> /\ Routable(t, node)
                THEN <<[node |-> node, segment_mapping |-> caps]>> ELSE <<>>
        lit == IF segs # <<>> /\ Append(node, Static(Head(segs))) \in DOMAIN t
               THEN Traverse(t, Append(node, Static(Head(segs))), Tail(segs), caps)
               ELSE <<>>
        dyn == IF segs # <<>>
               THEN TraverseDynamic(t, ChildrenOf(t, node, "Dynamic"), segs, caps)
               ELSE <<>>
        glob == TraverseGlob(t, ChildrenOf(t, node, "Glob"), segs, caps)
    IN here \o dyn \o lit \o glob

Traverse(t, node, segs, caps) ==
    LET here == IF segs = <<>> /\ Routable(t, node)
                THEN <<[node |-> node, segment_mapping |-> caps]>> ELSE <<>>
        lit == IF segs # <<>> /\ Append(node, Static(Head(segs))) \in DOMAIN t
               THEN Traverse(t, Append(node, Static(Head(segs))), Tail(segs), caps)
               ELSE <<>>
        dyn == IF segs # <<>>
               THEN TraverseDynamic(t, ChildrenOf(t, node, "Dynamic"), segs, caps)
               ELSE <<>>
        glob == TraverseGlob(t, ChildrenOf(t, node, "Glob"), segs, caps)
    IN here \o lit \o dyn \o glob

TraverseDynamic(t, kids, segs, caps) ==
    IF kids = {} THEN <<>>
    ELSE LET c == CHOOSE k \in kids : TRUE
         IN Traverse(t, c, Tail(segs), AddCapture(caps, c[Len(c)][2], <<Head(segs)>>))
            \o TraverseDynamic(t, kids \ {c}, segs, caps)

TraverseGlob(t, kids, segs, caps) ==
    IF kids = {} THEN <<>>
    ELSE LET c == CHOOSE k \in kids : TRUE
         IN GlobLengths(t, c, segs, caps, Len(segs))
            \o TraverseGlob(t, kids \ {c}, segs, caps)

\* A glob that takes one segment at least.
GlobLengths_nonempty(t, c, segs, caps, k) ==
    IF k < 1 THEN <<>>
    ELSE Traverse(t, c, SubSeq(segs, k + 1, Len(segs)),
                  AddCapture(caps, c[Len(c)][2], SubSeq(segs, 1, k)))
         \o GlobLengths(t, c, segs, caps, k - 1)

GlobLengths(t, c, segs, caps, k) ==
    IF k < 0 THEN <<>>
    ELSE Traverse(t, c, SubSeq(segs, k + 1, Len(segs)),
                  AddCapture(caps, c[Len(c)][2], SubSeq(segs, 1, k)))
         \o GlobLengths(t, c, segs, caps, k - 1)

\* MethodOnlyRouteMatcher::is_match
is_match(route, req) == route.matcher = req.method

\* The first route of the node, in registration order, whose matcher accepts
\* the request; 0 when none does.
select_route(routes, req) ==
    IF \E i \in 1..Len(routes) : is_match(routes[i], req)
    THEN CHOOSE i \in 1..Len(routes) :
            /\ is_match(routes[i], req)
            /\ \A j \in 1..(i - 1) : ~is_match(routes[j], req)
    ELSE 0

\* The methods of the routes registered at a node.
MethodsAt(t, node) == {t[node][i].matcher : i \in 1..Len(t[node])}

NoMatch == [outcome |-> "NotFound", node |-> <<>>, route |-> 0,
            segment_mapping |-> EmptyMapping, allowed |-> {}]

\* match(path): Matched(route, captures), NotFound or MethodNotAllowed(allowed).
Match(t, req) ==
    LET cands == Traverse(t, <<>>, req.path, EmptyMapping)
        Hit(c) == select_route(t[c.node], req) # 0
        hits == SelectSeq(cands, Hit)
    IN IF cands = <<>> THEN NoMatch
       ELSE IF hits = <<>>
       THEN [NoMatch EXCEPT !.outcome = "MethodNotAllowed",
                            !.node = cands[1].node,
                            !.allowed = UNION {MethodsAt(t, cands[c].node) :
                                                 c \in 1..Len(cands)}]
       ELSE [outcome |-> "Matched", node |-> hits[1].node,
             route |-> select_route(t[hits[1].node], req),
             segment_mapping |-> hits[1].segment_mapping, allowed |-> {}]

\* ------------------------------------------------------------ extraction

Digits == {"0", "1", "2", "3", "4", "5", "6", "7", "8", "9"}

DigitVal(c) ==
    CASE c = "0" -> 0 [] c = "1" -> 1 [] c = "2" -> 2 [] c = "3" -> 3 [] c = "4" -> 4
      [] c = "5" -> 5 [] c = "6" -> 6 [] c = "7" -> 7 [] c = "8" -> 8 [] c = "9" -> 9

DigitChar(n) ==
    CASE n = 0 -> "0" [] n = 1 -> "1" [] n = 2 -> "2" [] n = 3 -> "3" [] n = 4 -> "4"
      [] n = 5 -> "5" [] n = 6 -> "6" [] n = 7 -> "7" [] n = 8 -> "8" [] n = 9 -> "9"

RECURSIVE DecimalValue(_)
DecimalValue(chars) ==
    IF chars = <<>> THEN 0
    ELSE DecimalValue(SubSeq(chars, 1, Len(chars) - 1)) * 10 + DigitVal(chars[Len(chars)])

\* u64::from_str: the decimal value of a non-empty string of digits, an error
\* for anything else.
u64_from_str(chars) ==
    IF chars # <<>> /\ \A i \in 1..Len(chars) : chars[i] \in Digits
    THEN [ok |-> TRUE, val |-> DecimalValue(chars)]
    ELSE [ok |-> FALSE, val |-> 0]

\* format!("{}", n) of an unsigned number: its decimal digits.
RECURSIVE format_u64(_)
format_u64(n) ==
    IF n < 10 THEN <<DigitChar(n)>>
    ELSE format_u64(n \div 10) \o <<DigitChar(n % 10)>>

\* query_string::split: key -> the values given for it, in order.
query_string_split(query) ==
    IF query = NoQuery THEN EmptyMapping
    ELSE LET q == query[1]
             at(k) == SelectSeq([i \in 1..Len(q) |-> i], LAMBDA i : q[i][1] = k)
         IN [k \in {q[i][1] : i \in 1..Len(q)} |->
                [j \in 1..Len(at(k)) |-> q[at(k)[j]][2]]]

\* What an extractor or a handler did: Ok, Err, or a panic (an unwrap of
\* None or of Err).
Outcome(result, data) == [result |-> result, data |-> data]

\* HelloParams::extract looking the capture up under a mistyped name.
HelloParams_extract_mistyped(data, segment_mapping) ==
    IF "nmae" \notin DOMAIN segment_mapping THEN Outcome("Panic", data)
    ELSE IF segment_mapping["nmae"] = <<>> THEN Outcome("Panic", data)
    ELSE Outcome("Ok", put(data, "HelloParams", [name |-> segment_mapping["nmae"][1]]))

\* tests::HelloParams as PathExtractor
HelloParams_extract(data, segment_mapping) ==
    IF "name" \notin DOMAIN segment_mapping THEN Outcome("Panic", data)
    ELSE IF segment_mapping["name"] = <<>> THEN Outcome("Panic", data)
    ELSE Outcome("Ok", put(data, "HelloParams", [name |-> segment_mapping["name"][1]]))

\* The closure parse of AddParams::extract:
\* u64::from_str(vals.unwrap().first().unwrap().val()).unwrap()
AddParams_parse(mapping, key) ==
    IF key \notin DOMAIN mapping THEN [ok |-> FALSE, val |-> 0]
    ELSE IF mapping[key] = <<>> THEN [ok |-> FALSE, val |-> 0]
    ELSE u64_from_str(mapping[key][1])

\* AddParams::extract with the two keys exchanged.
AddParams_extract_swapped(data, query) ==
    LET mapping == query_string_split(query)
        x == AddParams_parse(mapping, "y")
        y == AddParams_parse(mapping, "x")
    IN IF ~x.ok \/ ~y.ok THEN Outcome("Panic", data)
       ELSE Outcome("Ok", put(data, "AddParams", [x |-> x.val, y |-> y.val]))

\* tests::AddParams as QueryStringExtractor
AddParams_extract(data, query) ==
    LET mapping == query_string_split(query)
        x == AddParams_parse(mapping, "x")
        y == AddParams_parse(mapping, "y")
    IN IF ~x.ok \/ ~y.ok THEN Outcome("Panic", data)
       ELSE Outcome("Ok", put(data, "AddParams", [x |-> x.val, y |-> y.val]))

\* PE::extract(state, segment_mapping)
PathExtractor_extract(pe, data, segment_mapping) ==
    IF pe = "HelloParams" THEN HelloParams_extract(data, segment_mapping)
    ELSE Outcome("Ok", data)

\* QSE::extract(state, query)
QueryStringExtractor_extract(qse, data, query) ==
    IF qse = "AddParams" THEN AddParams_extract(data, query)
    ELSE Outcome("Ok", data)

\* ------------------------------------------------------------ responses

Response(status, body) == [status |-> status, body |-> body, allow |-> {}]

\* hyper's StatusCode values the program answers with.
Ok == 200
Accepted == 202
BadRequest == 400
NotFound == 404
MethodNotAllowed == 405

\* -------------------------------------------------------------- handlers

Handled(result, data, resp) == [result |-> result, data |-> data, response |-> resp]

\* tests::welcome::index
index(data) == Handled("Ok", data, Response(Ok, <<>>))

\* tests::welcome::hello
hello(data) ==
    IF ~has(data, "HelloParams") THEN Handled("Panic", data, Response(Ok, <<>>))
    ELSE Handled("Ok", take(data, "HelloParams"),
                 Response(Ok, <<"Hello, ", data["HelloParams"].name, "!">>))

\* tests::welcome::add
add(data) ==
    IF ~has(data, "AddParams") THEN Handled("Panic", data, Response(Ok, <<>>))
    ELSE LET params == data["AddParams"]
         IN Handled("Ok", take(data, "AddParams"),
                    Response(Ok, format_u64(params.x) \o <<" ", "+", " ">>
                                 \o format_u64(params.y) \o <<" ", "=", " ">>
                                 \o format_u64(params.x + params.y)))

\* tests::api::submit
submit(data) == Handled("Ok", data, Response(Accepted, <<>>))

\* A handler whose future fails: future::err((state, error)).
fail(data) == [result |-> "Err", data |-> data, response |-> Response(Ok, <<>>),
               error |-> "handler error"]

Handler_handle(h, data) ==
    CASE h = "index" -> index(data)
      [] h = "hello" -> hello(data)
      [] h = "add" -> add(data)
      [] h = "submit" -> submit(data)
      [] h = "fail" -> fail(data)

\* ------------------------------------------------------------ middleware

\* What Middleware::call did with its chain: called it with the state
\* ("Chain"), returned a response of its own ("Respond"), or returned a
\* future that calls it later ("Lazy").
Called(next, data, resp) == [next |-> next, data |-> data, response |-> resp]

NoopMiddleware_call(data, req) == Called("Chain", data, Response(Ok, <<>>))

\* MiddlewareWithStateData passing a new State, with its own data alone,
\* to chain.
MiddlewareWithStateData_call_new_state(data, req) ==
    Called("Chain", put(EmptyData, "MiddlewareStateData", [i |-> 10]), Response(Ok, <<>>))

\* MiddlewareWithStateData::call: state.put(MiddlewareStateData { i: 10 });
\* chain(state, req).
MiddlewareWithStateData_call(data, req) ==
    Called("Chain", put(data, "MiddlewareStateData", [i |-> 10]), Response(Ok, <<>>))

\* ConditionalMiddleware with the condition lost: the chain is always called.
ConditionalMiddleware_call_unconditional(data, req) == Called("Chain", data, Response(Ok, <<>>))

ConditionalMiddleware_call(data, req) ==
    IF req.method = "Get" THEN Called("Chain", data, Response(Ok, <<>>))
    ELSE Called("Respond", data, Response(MethodNotAllowed, <<>>))

\* AsyncMiddleware calling chain(state, req) at once, outside its future.
AsyncMiddleware_call_eager(data, req) == Called("Chain", data, Response(Ok, <<>>))

\* AsyncMiddleware::call: f.and_then(move |_| chain(state, req)), the chain
\* called when the deferred action f has completed.
AsyncMiddleware_call(data, req) == Called("Lazy", data, Response(Ok, <<>>))

\* A middleware whose future fails without the chain being called.
FailingMiddleware_call(data, req) ==
    [next |-> "Fail", data |-> data, response |-> Response(Ok, <<>>),
     error |-> "middleware error"]

Middleware_call(kind, data, req) ==
    CASE kind = "FailingMiddleware" -> FailingMiddleware_call(data, req)
      [] kind = "NoopMiddleware" -> NoopMiddleware_call(data, req)
      [] kind = "MiddlewareWithStateData" -> MiddlewareWithStateData_call(data, req)
      [] kind = "ConditionalMiddleware" -> ConditionalMiddleware_call(data, req)
      [] kind = "AsyncMiddleware" -> AsyncMiddleware_call(data, req)

\* --------------------------------------------------------------- dispatch

\* The chain resolved against the pipeline set: every middleware of every
\* pipeline, in chain order, each with its handle and its place.
RECURSIVE resolve(_, _)
resolve(chain, set) ==
    IF chain = <<>> THEN <<>>
    ELSE [i \in 1..Len(set[Head(chain)]) |-> <<"middleware", Head(chain), set[Head(chain)][i]>>]
         \o resolve(Tail(chain), set)

\* DispatcherImpl::dispatch: the continuation that runs the pipelines in
\* chain order and then the handler.
Dispatcher_dispatch(dispatcher) ==
    resolve(dispatcher.pipeline_chain, dispatcher.pipelines)
    \o <<<<"handler", "", dispatcher.new_handler>>>>

\* ResponseFinalizer::finalize: the extenders registered for a type the
\* State holds, in registration order.
finalize_response(fin, data) == SelectSeq(fin, LAMBDA e : has(data, e[1]))

\* Router::handle: the tree is matched, a route selected, the path and the
\* query string extracted, and the route's dispatcher started.
Call(req) ==
    /\ router_built
    /\ pc = "idle"
    /\ request' = <<req>>
    /\ LET m == Match(tree, req)
           route == tree[m.node][m.route]
           p == PathExtractor_extract(route.extractors.pe, NewState(1).data, m.segment_mapping)
           q == QueryStringExtractor_extract(route.extractors.qse, p.data, req.query)
       IN /\ matched' = m
          /\ IF m.outcome = "NotFound"
             THEN /\ response' = <<Response(NotFound, <<>>)>>
                  /\ pc' = "done"
                  /\ state' = NewState(1)
                  /\ trace' = <<>>
                  /\ cont' = <<>>
             ELSE IF m.outcome = "MethodNotAllowed"
             THEN /\ response' = <<[Response(MethodNotAllowed, <<>>) EXCEPT !.allow = m.allowed]>>
                  /\ pc' = "done"
                  /\ state' = NewState(1)
                  /\ trace' = <<>>
                  /\ cont' = <<>>
             ELSE IF p.result # "Ok"
             THEN /\ response' = IF p.result = "Err" THEN <<Response(BadRequest, <<>>)>> ELSE <<>>
                  /\ pc' = IF p.result = "Err" THEN "done" ELSE "panicked"
                  /\ state' = [NewState(1) EXCEPT !.data = p.data]
                  /\ trace' = <<<<"extract", "path", route.extractors.pe>>>>
                  /\ cont' = <<>>
             ELSE IF q.result # "Ok"
             THEN /\ response' = IF q.result = "Err" THEN <<Response(BadRequest, <<>>)>> ELSE <<>>
                  /\ pc' = IF q.result = "Err" THEN "done" ELSE "panicked"
                  /\ state' = [NewState(1) EXCEPT !.data = q.data]
                  /\ trace' = <<<<"extract", "path", route.extractors.pe>>,
                                <<"extract", "query", route.extractors.qse>>>>
                  /\ cont' = <<>>
             ELSE /\ response' = <<>>
                  /\ pc' = "chain"
                  /\ state' = [NewState(1) EXCEPT !.data = q.data]
                  /\ trace' = <<<<"extract", "path", route.extractors.pe>>,
                                <<"extract", "query", route.extractors.qse>>>>
                  /\ cont' = Dispatcher_dispatch(route.dispatcher)
    /\ failure' = <<>>
    /\ finalized' = IF response' # <<>> THEN 1 ELSE 0
    /\ extended' = IF response' # <<>> THEN finalize_response(finalizer, state'.data) ELSE <<>>
    /\ UNCHANGED <<bvars, wvars>>

\* Middleware::call of the next middleware of the chain.
MiddlewareCall ==
    /\ pc = "chain"
    /\ cont # <<>>
    /\ Head(cont)[1] = "middleware"
    /\ LET r == Middleware_call(Head(cont)[3], state.data, request[1])
       IN /\ trace' = Append(trace, Head(cont))
          /\ state' = [state EXCEPT !.data = r.data]
          /\ cont' = IF r.next \in {"Respond", "Fail"} THEN <<>> ELSE Tail(cont)
          /\ response' = IF r.next = "Respond" THEN <<r.response>> ELSE response
          /\ failure' = IF r.next = "Fail" THEN <<r.error>> ELSE failure
          /\ finalized' = IF r.next = "Respond" THEN finalized + 1 ELSE finalized
          /\ extended' = IF r.next = "Respond"
                         THEN finalize_response(finalizer, r.data) ELSE extended
          /\ pc' = CASE r.next = "Chain" -> "chain"
                     [] r.next = "Respond" -> "done"
                     [] r.next = "Lazy" -> "lazy"
                     [] r.next = "Fail" -> "failed"
    /\ UNCHANGED <<bvars, wvars, request, matched>>

\* The asynchronous action of AsyncMiddleware completes: chain(state, req).
AsyncResume ==
    /\ pc = "lazy"
    /\ pc' = "chain"
    /\ UNCHANGED <<bvars, wvars, request, state, matched, cont, trace, response,
                   failure, extended, finalized>>

\* Handler::handle of the route's handler, the end of the chain.
HandlerCall ==
    /\ pc = "chain"
    /\ cont # <<>>
    /\ Head(cont)[1] = "handler"
    /\ LET r == Handler_handle(Head(cont)[3], state.data)
       IN /\ trace' = Append(trace, Head(cont))
          /\ state' = [state EXCEPT !.data = r.data]
          /\ cont' = <<>>
          /\ response' = IF r.result = "Ok" THEN <<r.response>> ELSE response
          /\ failure' = IF r.result = "Err" THEN <<r.error>> ELSE failure
          /\ finalized' = IF r.result = "Ok" THEN finalized + 1 ELSE finalized
          /\ extended' = IF r.result = "Ok"
                         THEN finalize_response(finalizer, r.data) ELSE extended
          /\ pc' = CASE r.result = "Ok" -> "done"
                     [] r.result = "Err" -> "failed"
                     [] OTHER -> "panicked"
    /\ UNCHANGED <<bvars, wvars, request, matched>>

\* ------------------------------------------------------- the workers

\* The handler is called for at most MaxRequests requests, one after another.
MaxRequests == 2

\* CpuPool::new(1): the pool the handler puts in the State.
PoolThreads == 1

\* The values the handler starts its counter from (41 in the tests).
InitialCounts == {0, 9, 41}

\* The jobs a handler submits, x being the number the handler starts from:
\* TestJob of tests::run_with_worker_tests, which increments the counter the
\* handler put in the State, and the closure job of
\* tests::run_with_worker_closure_tests, whose prepared closure returns
\* Ok(x + 1), or Err(e) when fails.
Jobs ==
    {[kind |-> "TestJob", x |-> x, fails |-> FALSE] : x \in InitialCounts}
    \cup {[kind |-> "Closure", x |-> x, fails |-> f] : x \in InitialCounts, f \in BOOLEAN}

JobOk(item) == [ok |-> TRUE, item |-> item]
JobErr(e) == [ok |-> FALSE, item |-> e]

\* TestJob::prepare taking the ThreadSafeValue out of the State
\* (state.take) where the code borrows and clones it.
Job_prepare_take(job, data) ==
    IF job.kind = "TestJob"
    THEN [data |-> take(data, "ThreadSafeValue"),
          prepared |-> [kind |-> "PreparedTestJob", fails |-> FALSE,
                        captures |-> [v |-> data["ThreadSafeValue"]]]]
    ELSE [data |-> data,
          prepared |-> [kind |-> "Closure", fails |-> job.fails,
                        captures |-> [x |-> job.x]]]

\* Job::prepare(self, &mut State): the State after it and the PreparedJob. TestJob clones the
\* ThreadSafeValue of the State (the Arc, not the number); the closure job
\* moves x into its prepared closure.
Job_prepare(job, data) ==
    IF job.kind = "TestJob"
    THEN [data |-> data,
          prepared |-> [kind |-> "PreparedTestJob", fails |-> FALSE,
                        captures |-> [v |-> data["ThreadSafeValue"]]]]
    ELSE [data |-> data,
          prepared |-> [kind |-> "Closure", fails |-> job.fails,
                        captures |-> [x |-> job.x]]]

\* The prepared job run a second time: the effect of run happens twice.
PreparedJob_run_twice(p, h) ==
    IF p.kind = "PreparedTestJob"
    THEN [heap |-> [h EXCEPT ![p.captures.v.n] = @ + 2], result |-> JobOk(<<>>)]
    ELSE [heap |-> h,
          result |-> IF p.fails THEN JobErr(<<"e">>) ELSE JobOk(<<p.captures.x + 2>>)]

\* PreparedJob::run(self), on the pool thread: the heap after it and what it
\* returned. PreparedTestJob: *(self.v.n.lock().unwrap()) += 1; Ok(()).
PreparedJob_run(p, h) ==
    IF p.kind = "PreparedTestJob"
    THEN [heap |-> [h EXCEPT ![p.captures.v.n] = @ + 1], result |-> JobOk(<<>>)]
    ELSE [heap |-> h,
          result |-> IF p.fails THEN JobErr(<<"e">>) ELSE JobOk(<<p.captures.x + 1>>)]

\* pool::run_in_thread_pool(state, f): panics when the State holds no
\* WorkersPool; else the future that owns the State, with f moved to the
\* pool. The State is moved in: the caller is left with none.
run_in_thread_pool(st, f) ==
    IF ~has(st.data, "WorkersPool")
    THEN [panic |-> TRUE, caller_state |-> <<>>, future_state |-> <<>>, prepared |-> <<>>]
    ELSE [panic |-> FALSE, caller_state |-> <<>>, future_state |-> <<st>>, prepared |-> <<f>>]

\* run_with_worker handing the pool a copy of the State and leaving the
\* original with the caller.
run_with_worker_copy(st, job) ==
    LET p == Job_prepare(job, st.data)
        f == run_in_thread_pool([st EXCEPT !.data = p.data], p.prepared)
    IN [f EXCEPT !.caller_state = <<st>>]

\* run_with_worker handing the pool a new State that holds the pool alone,
\* not the State it was given.
run_with_worker_new_state(st, job) ==
    LET p == Job_prepare(job, st.data)
    IN IF has(st.data, "WorkersPool")
       THEN run_in_thread_pool(
                [id |-> 0, data |-> put(EmptyData, "WorkersPool", st.data["WorkersPool"])],
                p.prepared)
       ELSE run_in_thread_pool(st, p.prepared)

\* run_with_worker falling back to a pool of its own when the State holds
\* none.
run_with_worker_default_pool(st, job) ==
    LET p == Job_prepare(job, st.data)
    IN [panic |-> FALSE, caller_state |-> <<>>,
        future_state |-> <<[st EXCEPT !.data = p.data]>>, prepared |-> <<p.prepared>>]

\* run_with_worker keeping the prepared job inside the future it returns,
\* to run when the future is polled, and giving the pool nothing.
run_with_worker_unsubmitted(st, job) ==
    LET p == Job_prepare(job, st.data)
        f == run_in_thread_pool([st EXCEPT !.data = p.data], p.prepared)
    IN [f EXCEPT !.prepared = <<>>]

\* run_with_worker(state, job)
run_with_worker(st, job) ==
    LET p == Job_prepare(job, st.data)
    IN run_in_thread_pool([st EXCEPT !.data = p.data], p.prepared)

\* The worker future failing with an error of its own in place of the
\* job's.
WorkerFuture_resolve_own_error(st, result) ==
    [ok |-> result.ok, state |-> st,
     item |-> IF result.ok THEN result.item ELSE <<"worker failed">>]

\* The future of run_in_thread_pool completes: the job's outcome with the
\* State the future held.
WorkerFuture_resolve(st, result) ==
    [ok |-> result.ok, state |-> st, item |-> result.item]

\* The test handler up to its call of run_with_worker: the State with the
\* pool (when the middleware's part is done) and, for TestJob, the counter.
HandlerState(id, job, configured) ==
    LET s0 == NewState(id).data
        s1 == IF configured THEN put(s0, "WorkersPool", [pool |-> PoolThreads]) ELSE s0
        s2 == IF job.kind = "TestJob" THEN put(s1, "ThreadSafeValue", [n |-> id]) ELSE s1
    IN [id |-> id, data |-> s2]

\* The continuation the test handler chains on the worker future:
\* r.unwrap_or_else(|_| panic!("not ok")), then the body from the counter
\* read through the State (TestJob) or from the item (closure job).
Continuation(job, r, h) ==
    IF ~r.ok THEN [panic |-> TRUE, response |-> <<>>]
    ELSE [panic |-> FALSE,
          response |-> <<Response(Ok,
              IF job.kind = "TestJob"
              THEN format_u64(h[r.state.data["ThreadSafeValue"].n])
              ELSE format_u64(r.item[1]))>>]

HandlerStart(job, configured) ==
    /\ wpc \in {"idle", "responded", "panicked", "dropped"}
    /\ wreq < MaxRequests
    /\ wreq' = wreq + 1
    /\ wjob' = job
    /\ wpc' = "handler"
    /\ caller_state' = <<HandlerState(wreq + 1, job, configured)>>
    /\ future_state' = <<>>
    /\ continuation_state' = <<>>
    /\ prepared' = <<>>
    /\ job_status' = "None"
    /\ job_result' = <<>>
    /\ heap' = IF job.kind = "TestJob"
               THEN [r \in DOMAIN heap \cup {wreq + 1} |->
                        IF r = wreq + 1 THEN job.x ELSE heap[r]]
               ELSE heap
    /\ wresult' = <<>>
    /\ wresponse' = <<>>
    /\ UNCHANGED <<bvars, rvars, cvars>>

RunWithWorker ==
    /\ wpc = "handler"
    /\ LET f == run_with_worker(caller_state[1], wjob)
       IN /\ wpc' = IF f.panic THEN "panicked" ELSE "submitted"
          /\ future_state' = f.future_state
          /\ prepared' = f.prepared
          /\ job_status' = IF f.panic THEN "None" ELSE "Prepared"
          /\ caller_state' = f.caller_state
    /\ UNCHANGED <<bvars, rvars, wreq, wjob, continuation_state, job_result, heap,
                   wresult, wresponse, cvars>>

\* The pool's threads that are running a job.
Busy ==
    (IF job_status = "Running" THEN 1 ELSE 0)
    + Cardinality({i \in 1..Len(abandoned) : abandoned[i].status = "Running"})

\* A pool thread takes the prepared job: a thread is free and no job
\* submitted earlier is still waiting.
PoolStart ==
    /\ job_status = "Prepared"
    /\ prepared # <<>>
    /\ Busy < PoolThreads
    /\ \A i \in 1..Len(abandoned) : abandoned[i].status # "Prepared"
    /\ job_status' = "Running"
    /\ UNCHANGED <<bvars, rvars, wreq, wjob, wpc, caller_state, future_state,
                   continuation_state, prepared, job_result, heap, wresult, wresponse,
                   cvars>>

\* prepared_job.run() returns on the pool thread.
PoolFinish ==
    /\ job_status = "Running"
    /\ LET r == PreparedJob_run(prepared[1], heap)
       IN /\ heap' = r.heap
          /\ job_result' = <<r.result>>
    /\ job_status' = "Completed"
    /\ prepared' = <<>>
    /\ UNCHANGED <<bvars, rvars, wreq, wjob, wpc, caller_state, future_state,
                   continuation_state, wresult, wresponse, cvars>>

\* The event loop polls the worker future once the job has completed.
FutureResolve ==
    /\ wpc = "submitted"
    /\ job_status = "Completed"
    /\ wresult' = Append(wresult, WorkerFuture_resolve(future_state[1], job_result[1]))
    /\ continuation_state' = <<WorkerFuture_resolve(future_state[1], job_result[1]).state>>
    /\ future_state' = <<>>
    /\ wpc' = "resolved"
    /\ UNCHANGED <<bvars, rvars, wreq, wjob, caller_state, prepared, job_status,
                   job_result, heap, wresponse, cvars>>

\* The handler's continuation runs with what the future resolved to.
Continue ==
    /\ wpc = "resolved"
    /\ LET c == Continuation(wjob, wresult[Len(wresult)], heap)
       IN /\ wpc' = IF c.panic THEN "panicked" ELSE "responded"
          /\ wresponse' = c.response
          /\ continuation_state' = IF c.panic THEN <<>> ELSE continuation_state
    /\ UNCHANGED <<bvars, rvars, wreq, wjob, caller_state, future_state,
                   prepared, job_status, job_result, heap, wresult, cvars>>

\* The worker future, or the continuation chain that holds it, is dropped
\* before it resolved: the State it held goes with it; the job stays on the
\* pool when it has not completed, and its result is discarded when it has.
DropFuture ==
    /\ wpc = "submitted"
    /\ wpc' = "dropped"
    /\ future_state' = <<>>
    /\ IF job_status \in {"Prepared", "Running"} /\ prepared # <<>>
       THEN /\ abandoned' = Append(abandoned, [prepared |-> prepared[1], status |-> job_status])
            /\ discarded' = discarded
       ELSE /\ abandoned' = abandoned
            /\ discarded' = IF job_status = "Completed" THEN discarded + 1 ELSE discarded
    /\ prepared' = <<>>
    /\ job_status' = "None"
    /\ job_result' = <<>>
    /\ UNCHANGED <<bvars, rvars, wreq, wjob, caller_state, continuation_state, heap,
                   wresult, wresponse>>

\* A pool thread takes the oldest waiting job nobody awaits.
AbandonedStart ==
    /\ Busy < PoolThreads
    /\ \E i \in 1..Len(abandoned) :
          /\ abandoned[i].status = "Prepared"
          /\ \A j \in 1..(i - 1) : abandoned[j].status # "Prepared"
          /\ abandoned' = [abandoned EXCEPT ![i].status = "Running"]
    /\ UNCHANGED <<bvars, rvars, wreq, wjob, wpc, caller_state, future_state,
                   continuation_state, prepared, job_status, job_result, heap, wresult,
                   wresponse, discarded>>

\* prepared_job.run() returns on the pool thread for a job nobody awaits:
\* its result is discarded and the thread is free.
AbandonedFinish ==
    /\ \E i \in 1..Len(abandoned) :
          /\ abandoned[i].status = "Running"
          /\ heap' = PreparedJob_run(abandoned[i].prepared, heap).heap
          /\ abandoned' = [k \in 1..(Len(abandoned) - 1) |->
                              IF k < i THEN abandoned[k] ELSE abandoned[k + 1]]
    /\ discarded' = discarded + 1
    /\ UNCHANGED <<bvars, rvars, wreq, wjob, wpc, caller_state, future_state,
                   continuation_state, prepared, job_status, job_result, wresult,
                   wresponse>>

\* ------------------------------------------------------- specification

vars == <<bvars, rvars, wvars>>

WorkerInit ==
    /\ wreq = 0
    /\ wjob = [kind |-> "TestJob", x |-> 41, fails |-> FALSE]
    /\ wpc = "idle"
    /\ caller_state = <<>>
    /\ future_state = <<>>
    /\ continuation_state = <<>>
    /\ prepared = <<>>
    /\ job_status = "None"
    /\ job_result = <<>>
    /\ heap = [r \in {} |-> 0]
    /\ wresult = <<>>
    /\ wresponse = <<>>
    /\ abandoned = <<>>
    /\ discarded = 0

RouterInit(chains) ==
    /\ pipeline_chain \in chains
    /\ pipelines = PipelineSet
    /\ tree = [n \in {<<>>} |-> <<>>]
    /\ builders = <<RouterBuilder(pipeline_chain, pipelines)>>
    /\ single = <<>>
    /\ registered = {}
    /\ finalizer = <<>>
    /\ router_built = FALSE
    /\ request = <<>>
    /\ pc = "idle"
    /\ state = NewState(0)
    /\ matched = NoMatch
    /\ cont = <<>>
    /\ trace = <<>>
    /\ response = <<>>
    /\ failure = <<>>
    /\ extended = <<>>
    /\ finalized = 0

Init == RouterInit(Chains) /\ WorkerInit

Next ==
    \/ \E d \in RouteDefs : Scope(d.scope)
    \/ EndScope
    \/ \E d \in RouteDefs : Draw(d)
    \/ \E d \in RouteDefs : WithPathExtractor(d.pe)
    \/ \E d \in RouteDefs : WithQueryStringExtractor(d.qse)
    \/ \E d \in RouteDefs : To(d)
    \/ Finalize
    \/ \E req \in Requests : Call(req)
    \/ MiddlewareCall
    \/ AsyncResume
    \/ HandlerCall

Spec == Init /\ [][Next]_vars

\* The workers crate's handler, served without a router.
WorkerNext ==
    \/ \E job \in Jobs, configured \in BOOLEAN : HandlerStart(job, configured)
    \/ RunWithWorker
    \/ PoolStart
    \/ PoolFinish
    \/ FutureResolve
    \/ Continue
    \/ DropFuture
    \/ AbandonedStart
    \/ AbandonedFinish

WorkerOnlyInit == RouterInit({<<>>}) /\ WorkerInit

WorkerSpec == WorkerOnlyInit /\ [][WorkerNext]_vars

\* The pool's threads keep taking and running the jobs they were given.
PoolFairness ==
    /\ WF_vars(PoolStart)
    /\ WF_vars(PoolFinish)
    /\ WF_vars(AbandonedStart)
    /\ WF_vars(AbandonedFinish)

WorkerFairSpec == WorkerSpec /\ PoolFairness

\* ---- the router over overlapping patterns

\* A router is built from at most MaxPatterns of the patterns below.
MaxPatterns == 3

\* Route definitions whose patterns overlap: a literal, a dynamic and a glob
\* pattern for the same paths, literal patterns that stop short, and three
\* routes for /hello/world, two of them for GET.
MatchDefs ==
    << [scope |-> <<>>, method |-> "Get", pattern |-> <<Lit("hello"), Dyn("name")>>,
        pe |-> "HelloParams", qse |-> NoopQueryStringExtractor, handler |-> "hello"],
       [scope |-> <<>>, method |-> "Get", pattern |-> <<Lit("hello"), Lit("world")>>,
        pe |-> NoopPathExtractor, qse |-> NoopQueryStringExtractor, handler |-> "index"],
       [scope |-> <<>>, method |-> "Post", pattern |-> <<Lit("hello"), Lit("world")>>,
        pe |-> NoopPathExtractor, qse |-> NoopQueryStringExtractor, handler |-> "submit"],
       [scope |-> <<>>, method |-> "Get", pattern |-> <<Lit("a"), Dyn("x"), Lit("b")>>,
        pe |-> NoopPathExtractor, qse |-> NoopQueryStringExtractor, handler |-> "index"],
       [scope |-> <<>>, method |-> "Get", pattern |-> <<Lit("a"), Lit("42"), Lit("c")>>,
        pe |-> NoopPathExtractor, qse |-> NoopQueryStringExtractor, handler |-> "index"],
       [scope |-> <<>>, method |-> "Get", pattern |-> <<Lit("files"), Star("rest")>>,
        pe |-> NoopPathExtractor, qse |-> NoopQueryStringExtractor, handler |-> "index"],
       [scope |-> <<>>, method |-> "Get", pattern |-> <<Lit("files"), Dyn("id")>>,
        pe |-> NoopPathExtractor, qse |-> NoopQueryStringExtractor, handler |-> "index"],
       [scope |-> <<Lit("files")>>, method |-> "Get", pattern |-> <<Lit("a"), Lit("x")>>,
        pe |-> NoopPathExtractor, qse |-> NoopQueryStringExtractor, handler |-> "index"],
       [scope |-> <<>>, method |-> "Get", pattern |-> <<Lit("hello"), Lit("world")>>,
        pe |-> NoopPathExtractor, qse |-> NoopQueryStringExtractor, handler |-> "submit"] >>

MatchPaths ==
    { <<"hello", "world">>, <<"hello", "bob">>, <<"a", "42", "b">>, <<"a", "42", "c">>,
      <<"a", "7", "b">>, <<"files">>, <<"files", "a">>, <<"files", "a", "b">>,
      <<"files", "a", "x">>, <<"files", "a", "b", "c">>, <<"nope">> }

MatchRequests == {Req(m, path, NoQuery) : m \in Methods, path \in MatchPaths}

\* The closure's calls for one definition: scope(..) when it has one,
\* get/post(pattern), the extractors, to(handler).
Register(t, d, chain, set) ==
    LET router == RouterBuilder(chain, set)
        outer == IF d.scope = <<>> THEN router ELSE ScopeBuilder(router, d.scope)
        b == with_query_string_extractor(
                 with_path_extractor(SingleRouteBuilder(outer, d.method, d.pattern), d.pe),
                 d.qse)
    IN to_new_handler(WithNodes(t, b.node_builder), b, d.handler)

\* build_router with a closure that registers the definitions chosen, in
\* the order of MatchDefs.
RECURSIVE BuildTree(_, _)
BuildTree(chosen, k) ==
    IF k = 0 THEN [n \in {<<>>} |-> <<>>]
    ELSE IF k \in chosen
    THEN Register(BuildTree(chosen, k - 1), MatchDefs[k], <<>>, PipelineSet)
    ELSE BuildTree(chosen, k - 1)

MatchInit ==
    /\ WorkerInit
    /\ pipeline_chain = <<>>
    /\ pipelines = PipelineSet
    /\ \E chosen \in {c \in SUBSET (1..Len(MatchDefs)) : Cardinality(c) <= MaxPatterns} :
          /\ tree = BuildTree(chosen, Len(MatchDefs))
          /\ registered = {MatchDefs[k] : k \in chosen}
    /\ builders = <<RouterBuilder(pipeline_chain, pipelines)>>
    /\ single = <<>>
    /\ finalizer = <<>>
    /\ router_built = TRUE
    /\ request = <<>>
    /\ pc = "idle"
    /\ state = NewState(0)
    /\ matched = NoMatch
    /\ cont = <<>>
    /\ trace = <<>>
    /\ response = <<>>
    /\ failure = <<>>
    /\ extended = <<>>
    /\ finalized = 0

MatchNext ==
    \/ \E req \in MatchRequests : Call(req)
    \/ HandlerCall

MatchSpec == MatchInit /\ [][MatchNext]_vars

\* ---- the dispatcher over failing units and registered extenders

\* The pipeline set with one more pipeline, whose middleware fails.
DispatchPipelineSet ==
    [h \in Handles \cup {"P4"} |->
        IF h = "P4" THEN <<"FailingMiddleware">> ELSE PipelineSet[h]]

DispatchChains ==
    {c \in UNION {[1..n -> DOMAIN DispatchPipelineSet] : n \in 0..MaxChain} :
        \A i, j \in 1..Len(c) : i # j => c[i] # c[j]}

DispatchDefs ==
    << [scope |-> <<>>, method |-> "Get", pattern |-> <<>>,
        pe |-> NoopPathExtractor, qse |-> NoopQueryStringExtractor, handler |-> "index"],
       [scope |-> <<>>, method |-> "Get", pattern |-> <<Lit("fail")>>,
        pe |-> NoopPathExtractor, qse |-> NoopQueryStringExtractor, handler |-> "fail"],
       [scope |-> <<>>, method |-> "Get", pattern |-> <<Lit("hello"), Dyn("name")>>,
        pe |-> "HelloParams", qse |-> NoopQueryStringExtractor, handler |-> "hello"],
       [scope |-> <<>>, method |-> "Get", pattern |-> <<Lit("add")>>,
        pe |-> NoopPathExtractor, qse |-> "AddParams", handler |-> "add"],
       [scope |-> <<>>, method |-> "Post", pattern |-> <<Lit("add")>>,
        pe |-> NoopPathExtractor, qse |-> "AddParams", handler |-> "add"] >>

DispatchUris ==
    { <<<<>>, NoQuery>>,
      <<<<"fail">>, NoQuery>>,
      <<<<"hello", "world">>, NoQuery>>,
      <<<<"add">>, <<<< <<"x", <<"1", "6">>>>, <<"y", <<"7", "1">>>> >>>>>>,
      <<<<"add">>, <<<< <<"x", <<"a", "b", "c">>>>, <<"y", <<"7", "1">>>> >>>>>> }

DispatchRequests == {Req(m, u[1], u[2]) : m \in {"Get", "Post"}, u \in DispatchUris}

\* The extenders the closure registers with the response finalizer: none,
\* as build_router leaves it, or four, two of them for one type.
FinalizerChoices ==
    { <<>>,
      << <<"MiddlewareStateData", "m1">>, <<"AddParams", "a">>,
         <<"MiddlewareStateData", "m2">>, <<"HelloParams", "h">> >> }

\* build_router with a closure that registers the definitions in order.
RECURSIVE RegisterAll(_, _, _)
RegisterAll(defs, chain, set) ==
    IF defs = <<>> THEN [n \in {<<>>} |-> <<>>]
    ELSE Register(RegisterAll(SubSeq(defs, 1, Len(defs) - 1), chain, set),
                  defs[Len(defs)], chain, set)

\* Either the router, built, or the workers crate's handler is served.
DispatchInit ==
    \/ /\ WorkerInit
       /\ pipeline_chain \in DispatchChains
       /\ pipelines = DispatchPipelineSet
       /\ finalizer \in FinalizerChoices
       /\ tree = RegisterAll(DispatchDefs, pipeline_chain, pipelines)
       /\ registered = {DispatchDefs[k] : k \in 1..Len(DispatchDefs)}
       /\ builders = <<RouterBuilder(pipeline_chain, pipelines)>>
       /\ single = <<>>
       /\ router_built = TRUE
       /\ request = <<>>
       /\ pc = "idle"
       /\ state = NewState(0)
       /\ matched = NoMatch
       /\ cont = <<>>
       /\ trace = <<>>
       /\ response = <<>>
       /\ failure = <<>>
       /\ extended = <<>>
       /\ finalized = 0
    \/ WorkerOnlyInit

DispatchNext ==
    \/ \E req \in DispatchRequests : Call(req)
    \/ MiddlewareCall
    \/ AsyncResume
    \/ HandlerCall
    \/ (~router_built /\ WorkerNext)

DispatchSpec == DispatchInit /\ [][DispatchNext]_vars

\* ------------------------------------------------------------- properties

\* What has executed for the request: the middleware and the handler, in the
\* order they started.
Exec == SelectSeq(trace, LAMBDA e : e[1] \in {"middleware", "handler"})

\* The chain build_router was given, resolved, and then the handler of the
\* selected route.
ExpectedUnits ==
    resolve(pipeline_chain, pipelines)
    \o <<<<"handler", "", tree[matched.node][matched.route].dispatcher.new_handler>>>>

\* A middleware that answers without invoking its continuation: of the four,
\* ConditionalMiddleware on a request that is not a GET.
ShortCircuits(unit, req) ==
    unit[1] = "middleware" /\ unit[3] = "ConditionalMiddleware" /\ req.method # "Get"

\* C1: for a route bound to a pipeline chain, what executes is a prefix of
\* the chain's middleware in chain order followed by the handler; nothing
\* executes after a middleware that produced a response without invoking its
\* continuation; and when every middleware invoked its continuation the whole
\* chain and then the handler have executed once the request is answered.
C1_ChainOrder ==
    (pc # "idle" /\ matched.outcome = "Matched") =>
        /\ Len(Exec) <= Len(ExpectedUnits)
        /\ \A i \in 1..Len(Exec) : Exec[i] = ExpectedUnits[i]
        /\ \A i \in 1..(Len(Exec) - 1) : ~ShortCircuits(Exec[i], request[1])
        /\ (Exec # <<>> /\ ShortCircuits(Exec[Len(Exec)], request[1])) =>
              /\ pc = "done"
              /\ cont = <<>>
              /\ response = <<Response(MethodNotAllowed, <<>>)>>
        /\ (pc = "done" /\ \A i \in 1..Len(Exec) : ~ShortCircuits(Exec[i], request[1])) =>
              Exec = ExpectedUnits

\* The chain [P1, P2] with P1 short-circuiting: P1 alone has executed and
\* the request is answered.
C1_Witness ==
    /\ pc = "done"
    /\ pipeline_chain = <<"P1", "P2">>
    /\ matched.outcome = "Matched"
    /\ request[1].method = "Post"
    /\ Exec = <<<<"middleware", "P1", "ConditionalMiddleware">>>>
    /\ response[1].status = MethodNotAllowed

\* The chain [P1, P2] with both continuing: P1, then P2's middleware, then
\* the handler.
C1_WitnessInOrder ==
    /\ pc = "done"
    /\ pipeline_chain = <<"P1", "P2">>
    /\ Exec = <<<<"middleware", "P1", "ConditionalMiddleware">>,
                <<"middleware", "P2", "NoopMiddleware">>,
                <<"middleware", "P2", "MiddlewareWithStateData">>,
                <<"handler", "", "hello">>>>
    /\ has(state.data, "MiddlewareStateData")

\* The State the handler passed to run_with_worker for the current request
\* (the future resolves only when the State held a pool).
PassedState == HandlerState(wreq, wjob, TRUE)

\* C2: when the prepared job's run succeeds with item v, the worker future
\* resolves to Ok((state, v)) with the State that was passed in, held by the
\* continuation alone; the counter TestJob incremented reads x + 1 through
\* that State (42 from 41), and the response shows it.
C2_RoundTrip ==
    (wresult # <<>> /\ job_result[1].ok) =>
        /\ wresult[1].ok
        /\ wresult[1].state = PassedState
        /\ wresult[1].item = IF wjob.kind = "TestJob" THEN <<>> ELSE <<wjob.x + 1>>
        /\ continuation_state = <<PassedState>>
        /\ caller_state = <<>>
        /\ future_state = <<>>
        /\ wjob.kind = "TestJob" =>
              heap[wresult[1].state.data["ThreadSafeValue"].n] = wjob.x + 1
        /\ wpc = "responded" =>
              /\ wresponse[1].status = Ok
              /\ wjob.x = 41 => wresponse[1].body = <<"4", "2">>
              /\ wjob.x = 9 => wresponse[1].body = <<"1", "0">>
              /\ wjob.x = 0 => wresponse[1].body = <<"1">>

\* TestJob from 41: the future has resolved Ok and the State reads 42.
C2_Witness ==
    /\ wpc = "responded"
    /\ wjob.kind = "TestJob"
    /\ wjob.x = 41
    /\ wresult[1].ok
    /\ wresult[1].state = PassedState
    /\ heap[continuation_state[1].data["ThreadSafeValue"].n] = 42
    /\ wresponse[1].body = <<"4", "2">>

Holders == Len(caller_state) + Len(future_state) + Len(continuation_state)

\* C3: the State has one holder at every instant of a dispatch: the caller
\* until run_with_worker, the worker future from submit until completion, the
\* continuation afterwards; while the prepared job waits for or runs on the
\* pool thread the future alone holds the State, and the prepared job
\* captured no State.
C3_ExclusiveOwner ==
    /\ wpc \in {"handler", "submitted", "resolved", "responded"} => Holders = 1
    /\ wpc \in {"idle", "panicked"} => Holders = 0
    /\ wpc = "handler" => caller_state # <<>>
    /\ wpc = "submitted" => future_state # <<>>
    /\ wpc \in {"resolved", "responded"} => continuation_state # <<>>
    /\ job_status \in {"Prepared", "Running"} =>
          /\ future_state # <<>>
          /\ caller_state = <<>>
          /\ continuation_state = <<>>
    /\ prepared # <<>> =>
          /\ job_status \in {"Prepared", "Running"}
          /\ DOMAIN prepared[1].captures \subseteq {"v", "x"}

\* The job is running on the pool thread and the future holds the State.
C3_Witness ==
    /\ job_status = "Running"
    /\ wjob.kind = "TestJob"
    /\ future_state = <<PassedState>>
    /\ Holders = 1
    /\ prepared[1].captures.v = future_state[1].data["ThreadSafeValue"]

\* C4: the future resolves at most once, and once the handler goes on it has
\* resolved; its outcome is the job's; when the prepared job failed with e it
\* resolved to Err((state, e)) with the State that was passed in.
C4_ErrorPath ==
    /\ Len(wresult) <= 1
    /\ wpc \in {"resolved", "responded"} => Len(wresult) = 1
    /\ wresult # <<>> =>
          /\ job_status = "Completed"
          /\ wresult[1].ok = job_result[1].ok
          /\ wresult[1].state = PassedState
    /\ (wresult # <<>> /\ ~job_result[1].ok) =>
          wresult[1] = [ok |-> FALSE, state |-> PassedState, item |-> <<"e">>]

\* The closure job failed and the future resolved to Err with the State.
C4_Witness ==
    /\ wpc = "resolved"
    /\ wjob.fails
    /\ wresult = <<[ok |-> FALSE, state |-> PassedState, item |-> <<"e">>]>>
    /\ continuation_state = <<PassedState>>

\* C10: run_with_worker on a State that holds no WorkersPool panics: the
\* handler's step out of its call ends panicked, no future is returned, no
\* job reaches the pool, and nothing resolves for that request afterwards.
C10_NoPoolPanics ==
    [][/\ (wpc = "handler" /\ ~has(caller_state[1].data, "WorkersPool") /\ wpc' # wpc) =>
             /\ wpc' = "panicked"
             /\ future_state' = <<>>
             /\ prepared' = <<>>
             /\ job_status' = "None"
             /\ wresult' = <<>>
       /\ (wpc = "panicked" /\ wresult = <<>>) => wresult' = <<>>]_vars

\* The handler called run_with_worker without a pool and panicked.
C10_Witness ==
    /\ wpc = "panicked"
    /\ wreq = 1
    /\ wresult = <<>>
    /\ job_status = "None"

\* ---- routing

\* The selected route.
Route == tree[matched.node][matched.route]

Path == request[1].path

\* A node leads to a path: its literal segments are the path's, a dynamic
\* segment stands for one segment, a trailing glob for the rest.
SegMatches(seg, s) == seg[1] = "Dynamic" \/ (seg[1] = "Static" /\ seg[2] = s)

NodeMatchesPath(node, path) ==
    IF node # <<>> /\ node[Len(node)][1] = "Glob"
    THEN /\ Len(path) >= Len(node) - 1
         /\ \A i \in 1..(Len(node) - 1) : SegMatches(node[i], path[i])
    ELSE /\ Len(path) = Len(node)
         /\ \A i \in 1..Len(node) : SegMatches(node[i], path[i])

\* The methods registered, through the builder, for the request's path.
RegisteredMethods ==
    {d.method : d \in {r \in registered : NodeMatchesPath(NodeOf(r), Path)}}

\* What extraction does for the selected route.
PathExtraction ==
    PathExtractor_extract(Route.extractors.pe, EmptyData, matched.segment_mapping)

QueryExtraction ==
    QueryStringExtractor_extract(Route.extractors.qse, PathExtraction.data, request[1].query)

HandlerRan == \E i \in 1..Len(Exec) : Exec[i][1] = "handler"

\* C5: whenever the selected route's path or query-string extractor fails, no
\* pipeline and no handler executes, no extracted data is left in the State,
\* and the request is answered with a client-error response.
C5_ExtractionFailure ==
    (/\ pc # "idle"
     /\ matched.outcome = "Matched"
     /\ (PathExtraction.result # "Ok" \/ QueryExtraction.result # "Ok")) =>
        /\ Exec = <<>>
        /\ ~has(state.data, "HelloParams")
        /\ ~has(state.data, "AddParams")
        /\ response # <<>>
        /\ response[1].status \in 400..499

Query16and71 == <<<< <<"x", <<"1", "6">>>>, <<"y", <<"7", "1">>>> >>>>

Query07and9and5 == <<<< <<"y", <<"0", "7">>>>, <<"x", <<"9">>>>, <<"x", <<"5">>>> >>>>

\* C6: for a route registered with with_query_string_extractor::<AddParams>(),
\* a request whose query string decodes reaches the chain and the handler
\* with the decoded AddParams in the State: the extraction comes first in
\* what the request did, x = 16 and y = 71 are in the State until the handler
\* takes them, and the handler answers "16 + 71 = 87".
C6_QueryExtraction ==
    (/\ pc # "idle"
     /\ matched.outcome = "Matched"
     /\ Route.extractors.qse = "AddParams"
     /\ pc # "panicked") =>
        /\ Len(trace) >= 2
        /\ trace[1][1] = "extract"
        /\ trace[2] = <<"extract", "query", "AddParams">>
        /\ \A i \in 3..Len(trace) : trace[i][1] # "extract"
        /\ ~HandlerRan => has(state.data, "AddParams")
        /\ request[1].query = Query16and71 =>
              /\ ~HandlerRan => state.data["AddParams"] = [x |-> 16, y |-> 71]
              /\ HandlerRan =>
                    response = <<Response(Ok, <<"1", "6", " ", "+", " ", "7", "1",
                                                " ", "=", " ", "8", "7">>)>>
        /\ request[1].query = Query07and9and5 =>
              /\ ~HandlerRan => state.data["AddParams"] = [x |-> 9, y |-> 7]
              /\ HandlerRan =>
                    response = <<Response(Ok, <<"9", " ", "+", " ", "7",
                                                " ", "=", " ", "1", "6">>)>>

\* /add?x=16&y=71 has reached the handler, which answered "16 + 71 = 87".
C6_Witness ==
    /\ pc = "done"
    /\ request[1].query = Query16and71
    /\ Exec # <<>>
    /\ Exec[Len(Exec)] = <<"handler", "", "add">>
    /\ response[1].body = <<"1", "6", " ", "+", " ", "7", "1", " ", "=", " ", "8", "7">>

DynamicPlaces(node) == {i \in 1..Len(node) : node[i][1] = "Dynamic"}

\* C7: a matched pattern without a glob has the path's length, its literal
\* segments are the path's, and each dynamic segment captured exactly the
\* path's segment at its place, under its name; the path extractor has the
\* capture before the handler runs (hello answers with the segment matched by
\* :name); and a path no registered pattern leads to is not found.
C7_DynamicCapture ==
    pc # "idle" =>
        /\ (matched.outcome = "Matched" /\ \A i \in 1..Len(matched.node) : matched.node[i][1] # "Glob") =>
              /\ Len(matched.node) = Len(Path)
              /\ \A i \in 1..Len(Path) :
                    matched.node[i][1] = "Static" => matched.node[i][2] = Path[i]
              /\ DOMAIN matched.segment_mapping =
                    {matched.node[i][2] : i \in DynamicPlaces(matched.node)}
              /\ \A i \in DynamicPlaces(matched.node) :
                    matched.segment_mapping[matched.node[i][2]] = <<Path[i]>>
        /\ (matched.outcome = "Matched" /\ Route.extractors.pe = "HelloParams") =>
              /\ pc # "panicked"
              /\ ~HandlerRan => state.data["HelloParams"] = [name |-> Path[2]]
              /\ HandlerRan => response = <<Response(Ok, <<"Hello, ", Path[2], "!">>)>>
        /\ (\A d \in registered : ~NodeMatchesPath(NodeOf(d), Path)) =>
              matched.outcome = "NotFound"

\* /a/:x/b matched against /a/42/b: x captured "42".
C7_Witness ==
    /\ pc = "done"
    /\ Path = <<"a", "42", "b">>
    /\ matched.outcome = "Matched"
    /\ matched.node = <<Static("a"), Dynamic("x"), Static("b")>>
    /\ matched.segment_mapping = [n \in {"x"} |-> <<"42">>]
    /\ HandlerRan

\* /hello/:name matched against /hello/world: the handler answered with it.
C7_WitnessHello ==
    /\ pc = "done"
    /\ Path = <<"hello", "world">>
    /\ response = <<Response(Ok, <<"Hello, ", "world", "!">>)>>

\* /a/:x/b is registered and /a/b is not found.
C7_WitnessMissing ==
    /\ pc = "done"
    /\ Path = <<"a", "b">>
    /\ \E d \in registered : NodeOf(d) = <<Static("a"), Dynamic("x"), Static("b")>>
    /\ matched.outcome = "NotFound"
    /\ response[1].status = NotFound

\* A route definition whose full path, the scope's prefix and then the
\* pattern, is literal; and that path's segments.
LiteralDef(d) == \A i \in 1..Len(d.scope \o d.pattern) : (d.scope \o d.pattern)[i][1] = ""

LiteralPath(d) == [i \in 1..Len(d.scope \o d.pattern) |-> (d.scope \o d.pattern)[i][2]]

\* C8: for every literal path registered through the builder, inside a scope
\* or not, a request for that path with the registered method selects the
\* route registered for it, with empty captures, and is dispatched to its
\* handler: no other handler runs for it, and the handler has run once the
\* request is answered unless a middleware answered it.
C8_LiteralPaths ==
    pc # "idle" =>
        \A d \in registered :
            (LiteralDef(d) /\ Path = LiteralPath(d) /\ request[1].method = d.method) =>
                /\ matched.outcome = "Matched"
                /\ DOMAIN matched.segment_mapping = {}
                /\ Route.dispatcher.new_handler = d.handler
                /\ \A i \in 1..Len(Exec) :
                      Exec[i][1] = "handler" => Exec[i] = <<"handler", "", d.handler>>
                /\ (pc = "done" /\ \A i \in 1..Len(Exec) : ~ShortCircuits(Exec[i], request[1])) =>
                      /\ HandlerRan
                      /\ d.handler = "index" => response[1].status = Ok
                      /\ d.handler = "submit" => response[1].status = Accepted

\* POST /api/submit reached the handler registered as post("/submit") inside
\* scope("/api").
C8_Witness ==
    /\ pc = "done"
    /\ request[1].method = "Post"
    /\ Path = <<"api", "submit">>
    /\ Exec # <<>>
    /\ Exec[Len(Exec)] = <<"handler", "", "submit">>
    /\ response[1].status = Accepted
    /\ DOMAIN matched.segment_mapping = {}

\* C9: a request is not found exactly when no registered pattern leads to its
\* path; when patterns do and none of their routes has the request's method,
\* the outcome is method-not-allowed with exactly the methods registered for
\* the path, no pipeline or handler runs, and the response carries them.
C9_MethodNotAllowed ==
    pc # "idle" =>
        /\ (matched.outcome = "NotFound") <=> (RegisteredMethods = {})
        /\ matched.outcome = "NotFound" => response = <<Response(NotFound, <<>>)>>
        /\ (RegisteredMethods # {} /\ request[1].method \notin RegisteredMethods) =>
              /\ matched.outcome = "MethodNotAllowed"
              /\ matched.allowed = RegisteredMethods
              /\ pc = "done"
              /\ Exec = <<>>
              /\ response = <<[Response(MethodNotAllowed, <<>>) EXCEPT !.allow = RegisteredMethods]>>
        /\ matched.outcome = "MethodNotAllowed" => request[1].method \notin RegisteredMethods

\* GET /add and POST /add are registered and PUT /add is answered with
\* method-not-allowed listing Get and Post.
C9_Witness ==
    /\ pc = "done"
    /\ request[1].method = "Put"
    /\ Path = <<"add">>
    /\ Cardinality({d \in registered : NodeOf(d) = <<Static("add")>>}) = 2
    /\ matched.outcome = "MethodNotAllowed"
    /\ matched.allowed = {"Get", "Post"}
    /\ response[1].allow = {"Get", "Post"}

\* ---- cancellation

\* C11: when the worker future is dropped before it resolved, the job that
\* run_with_worker submitted stays on the pool and nothing is delivered or
\* raised for it; a job nobody awaits leaves the pool only by finishing its
\* run, which frees its thread and discards its result without touching the
\* handler; and, the pool's threads being scheduled, every such job finishes
\* and a pool with no free thread gets one back.
C11_DroppedJobCompletes ==
    /\ [][/\ (wpc = "submitted" /\ wpc' = "dropped") =>
                /\ job_status \in {"Prepared", "Running"} =>
                      /\ Len(abandoned') = Len(abandoned) + 1
                      /\ abandoned'[Len(abandoned')].status = job_status
                      /\ SubSeq(abandoned', 1, Len(abandoned)) = abandoned
                      /\ Busy' = Busy
                /\ job_status = "Completed" =>
                      /\ abandoned' = abandoned
                      /\ discarded' = discarded + 1
                /\ wresult' = wresult
                /\ wresponse' = wresponse
          /\ Len(abandoned') < Len(abandoned) =>
                /\ Len(abandoned') = Len(abandoned) - 1
                /\ Busy' = Busy - 1
                /\ discarded' = discarded + 1
                /\ wpc' = wpc
                /\ wresult' = wresult
                /\ wresponse' = wresponse
          /\ \A i \in 1..Len(abandoned) :
                (abandoned[i].status = "Running" /\ Len(abandoned') >= Len(abandoned)) =>
                    abandoned'[i].status = "Running"
          /\ discarded' >= discarded]_vars
    /\ \A k \in 1..MaxRequests : (Len(abandoned) + discarded >= k) ~> (discarded >= k)
    /\ (Busy >= PoolThreads) ~> (Busy < PoolThreads)

\* The future of the first request was dropped while its job ran; the job
\* is still running on the pool's thread when the next request's job waits.
C11_Witness ==
    /\ wreq = 2
    /\ wpc = "submitted"
    /\ job_status = "Prepared"
    /\ Len(abandoned) = 1
    /\ abandoned[1].status = "Running"
    /\ Busy = PoolThreads

\* The dropped TestJob incremented its counter from 41, its result was
\* discarded, and the next request's job went through the pool.
C11_WitnessLater ==
    /\ wreq = 2
    /\ wpc = "responded"
    /\ discarded = 1
    /\ abandoned = <<>>
    /\ 1 \in DOMAIN heap
    /\ heap[1] = 42

\* ---- ordering within a request

\* C12: within a request a unit starts only when the chain is ready for it,
\* and it is the next of the chain in order, after a unit that did not
\* short-circuit; while an asynchronous middleware's action is pending
\* nothing starts and nothing of the request changes, the rest of the chain
\* waiting for it.
C12_StrictOrder ==
    [][/\ pc = "lazy" =>
             /\ Exec' = Exec
             /\ cont' = cont
             /\ state' = state
             /\ response' = response
             /\ pc' \in {"lazy", "chain"}
       /\ (pc # "idle" /\ Exec' # Exec) =>
             /\ pc = "chain"
             /\ Len(Exec) < Len(ExpectedUnits)
             /\ Exec' = Append(Exec, ExpectedUnits[Len(Exec) + 1])
             /\ Exec # <<>> => ~ShortCircuits(Exec[Len(Exec)], request[1])
             /\ Exec'[Len(Exec')][3] = "AsyncMiddleware" =>
                   /\ pc' = "lazy"
                   /\ cont' = Tail(cont)
                   /\ response' = <<>>
             /\ ShortCircuits(Exec'[Len(Exec')], request[1]) =>
                   /\ pc' = "done"
                   /\ cont' = <<>>]_vars

\* AsyncMiddleware of the chain [P3, P2] has started and its action is
\* pending: P2's middleware and the handler wait.
C12_Witness ==
    /\ pc = "lazy"
    /\ pipeline_chain = <<"P3", "P2">>
    /\ Exec = <<<<"middleware", "P3", "AsyncMiddleware">>>>
    /\ Len(cont) = 3
    /\ response = <<>>

\* The same chain once the action completed: the rest ran in order.
C12_WitnessResumed ==
    /\ pc = "done"
    /\ pipeline_chain = <<"P3", "P2">>
    /\ Len(Exec) = 4
    /\ Exec[1] = <<"middleware", "P3", "AsyncMiddleware">>
    /\ Exec[4][1] = "handler"

\* ---- precedence

Rank(seg) == CASE seg[1] = "Static" -> 1 [] seg[1] = "Dynamic" -> 2 [] seg[1] = "Glob" -> 3

\* Where two patterns part, the first takes the more preferred kind of child.
Preferred(n1, n2) ==
    \E i \in 1..Len(n1) :
        /\ i <= Len(n2)
        /\ \A j \in 1..(i - 1) : n1[j] = n2[j]
        /\ Rank(n1[i]) < Rank(n2[i])

\* The registered patterns that lead to the request's path and have a route
\* for its method.
AcceptingNodes ==
    {NodeOf(d) : d \in {r \in registered :
                          r.method = request[1].method /\ NodeMatchesPath(NodeOf(r), Path)}}

\* C13: a request is matched exactly when some registered pattern leads to
\* its path with a route for its method, and the pattern matched is then
\* preferred to every other such pattern: where they part it has a literal
\* segment against a dynamic or a glob one, or a dynamic against a glob. So
\* the literal pattern wins where it has a route, and where the literal
\* branch dead-ends the dynamic or glob pattern still matches.
C13_Precedence ==
    pc # "idle" =>
        /\ (matched.outcome = "Matched") <=> (AcceptingNodes # {})
        /\ matched.outcome = "Matched" =>
              /\ matched.node \in AcceptingNodes
              /\ \A n \in AcceptingNodes \ {matched.node} : Preferred(matched.node, n)
              /\ is_match(Route, request[1])

\* /hello/world leads to the literal pattern and to /hello/:name: the
\* literal pattern's route is selected.
C13_Witness ==
    /\ pc = "done"
    /\ request[1].method = "Get"
    /\ Path = <<"hello", "world">>
    /\ AcceptingNodes = {<<Static("hello"), Static("world")>>, <<Static("hello"), Dynamic("name")>>}
    /\ matched.node = <<Static("hello"), Static("world")>>
    /\ Exec = <<<<"handler", "", "index">>>>

\* /a/42/b: the literal branch /a/42 dead-ends and /a/:x/b matches.
C13_WitnessBacktrack ==
    /\ pc = "done"
    /\ Path = <<"a", "42", "b">>
    /\ <<Static("a"), Static("42"), Static("c")>> \in DOMAIN tree
    /\ matched.outcome = "Matched"
    /\ matched.node = <<Static("a"), Dynamic("x"), Static("b")>>
    /\ matched.segment_mapping = [n \in {"x"} |-> <<"42">>]

\* /files/a/b: the literal branch /files/a and the dynamic /files/:id
\* dead-end, and the glob matches.
C13_WitnessGlob ==
    /\ pc = "done"
    /\ Path = <<"files", "a", "b">>
    /\ Cardinality(registered) = 3
    /\ <<Static("files"), Static("a"), Static("x")>> \in DOMAIN tree
    /\ <<Static("files"), Dynamic("id")>> \in DOMAIN tree
    /\ matched.node = <<Static("files"), Glob("rest")>>

\* GET /hello/world where the literal pattern has a POST route only: the
\* dynamic pattern's GET route is selected.
C13_WitnessMethod ==
    /\ pc = "done"
    /\ request[1].method = "Get"
    /\ Path = <<"hello", "world">>
    /\ <<Static("hello"), Static("world")>> \in DOMAIN tree
    /\ MethodsAt(tree, <<Static("hello"), Static("world")>>) = {"Post"}
    /\ matched.node = <<Static("hello"), Dynamic("name")>>

\* ---- globs

EndsInGlob(node) == node # <<>> /\ node[Len(node)][1] = "Glob"

\* C14: a pattern that ends in a glob, when matched, captured under the
\* glob's name exactly the path's segments from the glob's place on, in
\* order, none when the path ends there; and when it is the only registered
\* pattern with a route for the request it is matched, also with nothing for
\* the glob to take (/files/*rest on /files/a/b/c: rest = [a, b, c]; on
\* /files/: rest = []).
C14_GlobCapture ==
    pc # "idle" =>
        /\ (matched.outcome = "Matched" /\ EndsInGlob(matched.node)) =>
              /\ Len(Path) >= Len(matched.node) - 1
              /\ matched.node[Len(matched.node)][2] \in DOMAIN matched.segment_mapping
              /\ matched.segment_mapping[matched.node[Len(matched.node)][2]] =
                    SubSeq(Path, Len(matched.node), Len(Path))
        /\ \A n \in AcceptingNodes :
              (EndsInGlob(n) /\ AcceptingNodes = {n}) =>
                  /\ matched.outcome = "Matched"
                  /\ matched.node = n

\* /files/*rest matched against /files/a/b/c.
C14_Witness ==
    /\ pc = "done"
    /\ Path = <<"files", "a", "b", "c">>
    /\ matched.node = <<Static("files"), Glob("rest")>>
    /\ matched.segment_mapping = [n \in {"rest"} |-> <<"a", "b", "c">>]
    /\ response[1].status = Ok

\* /files/*rest matched against /files/.
C14_WitnessEmpty ==
    /\ pc = "done"
    /\ Path = <<"files">>
    /\ matched.outcome = "Matched"
    /\ matched.node = <<Static("files"), Glob("rest")>>
    /\ matched.segment_mapping = [n \in {"rest"} |-> <<>>]
    /\ response[1].status = Ok

\* ---- errors

\* The error the unit raises when it fails.
ErrorOf(unit) ==
    IF unit = <<"handler", "", "fail">> THEN <<"handler error">>
    ELSE IF unit[3] = "FailingMiddleware" THEN <<"middleware error">>
    ELSE <<>>

\* C15: a request's future fails exactly with the error the last unit that
\* ran raised, with no response made in its place; no operation runs twice
\* for a request; once a request has failed, panicked or been answered
\* nothing runs for it again; and the worker future fails with the job's own
\* error, once, the job never being run again for that request.
C15_NoRetry ==
    /\ [](pc = "failed" =>
            /\ Exec # <<>>
            /\ failure = ErrorOf(Exec[Len(Exec)])
            /\ failure # <<>>
            /\ response = <<>>
            /\ finalized = 0
            /\ cont = <<>>)
    /\ [](failure # <<>> => pc = "failed")
    /\ [](\A i, j \in 1..Len(trace) : i # j => trace[i] # trace[j])
    /\ [](wresult # <<>> =>
            /\ Len(wresult) = 1
            /\ wresult[1].ok = job_result[1].ok
            /\ wresult[1].item = job_result[1].item)
    /\ [][/\ pc \in {"failed", "panicked", "done"} => UNCHANGED rvars
          /\ (job_status = "Completed" /\ wreq' = wreq) =>
                /\ job_status' \in {"Completed", "None"}
                /\ job_status' = "None" => wpc' = "dropped"
                /\ job_result' \in {job_result, <<>>}
          /\ (wpc = "panicked" /\ wreq' = wreq) => wpc' = "panicked"]_vars

\* The handler of the chain [P2, P3] failed: its error is the request's.
C15_Witness ==
    /\ pc = "failed"
    /\ pipeline_chain = <<"P2", "P3">>
    /\ Len(Exec) = 4
    /\ Exec[4] = <<"handler", "", "fail">>
    /\ failure = <<"handler error">>
    /\ response = <<>>

\* A middleware failed: the handler never ran.
C15_WitnessMiddleware ==
    /\ pc = "failed"
    /\ pipeline_chain = <<"P2", "P4">>
    /\ failure = <<"middleware error">>
    /\ ~HandlerRan

\* The job failed: the worker future failed with its error, once.
C15_WitnessWorker ==
    /\ wpc = "panicked"
    /\ wresult # <<>>
    /\ ~wresult[1].ok
    /\ wresult[1].item = <<"e">>
    /\ job_status = "Completed"

\* ---- the response finalizer

ExtractionFailed ==
    /\ matched.outcome = "Matched"
    /\ (PathExtraction.result # "Ok" \/ QueryExtraction.result # "Ok")

HandlerCompleted == pc = "done" /\ HandlerRan

\* The extenders registered for a type the State holds, in registration
\* order: extender k is applied when its type is present.
ExtendersDue ==
    SelectSeq(finalizer, LAMBDA e : e[1] \in DOMAIN state.data)

\* C16: the response finalizer is invoked, once, after the handler has
\* completed and when extraction has failed, and what it applied is every
\* extender registered for a type present in the State, in registration
\* order, each once.
C16_Finalizer ==
    pc # "idle" =>
        /\ finalized <= 1
        /\ HandlerCompleted => finalized = 1
        /\ ExtractionFailed => finalized = 1
        /\ finalized = 1 => extended = ExtendersDue
        /\ finalized = 0 => extended = <<>>

\* The same, of the requests whose extractor did not panic.
C16_FinalizerWithoutPanic ==
    (pc # "idle" /\ ~(ExtractionFailed /\ pc = "panicked")) =>
        /\ finalized <= 1
        /\ HandlerCompleted => finalized = 1
        /\ finalized = 1 => extended = ExtendersDue
        /\ finalized = 0 => extended = <<>>

\* After the handler completed behind MiddlewareWithStateData, its two
\* extenders were applied, in registration order.
C16_HandlerFinalized ==
    /\ HandlerCompleted
    /\ finalizer # <<>>
    /\ extended = << <<"MiddlewareStateData", "m1">>, <<"MiddlewareStateData", "m2">> >>

\* ---- the life of a job

StatusRank(st) ==
    CASE st = "None" -> 0 [] st = "Prepared" -> 1 [] st = "Running" -> 2 [] st = "Completed" -> 3

\* C17: the job of a request moves one stage at a time from Prepared to
\* Running to Completed and never back; it becomes Prepared in the handler's
\* own step, from the State the handler holds, before any pool thread has it;
\* its run has happened once when it is Completed and not at all before (the
\* counter is x, then x + 1; the item is x + 1); and a Completed job keeps its
\* outcome.
C17_JobLifecycle ==
    /\ [](/\ job_status = "None" => (prepared = <<>> /\ job_result = <<>>)
          /\ job_status \in {"Prepared", "Running"} => (prepared # <<>> /\ job_result = <<>>)
          /\ job_status = "Completed" => (prepared = <<>> /\ job_result # <<>>)
          /\ (wjob.kind = "TestJob" /\ job_status \in {"Prepared", "Running"}) =>
                heap[wreq] = wjob.x
          /\ (wjob.kind = "TestJob" /\ job_status = "Completed") =>
                /\ heap[wreq] = wjob.x + 1
                /\ job_result = <<JobOk(<<>>)>>
          /\ (wjob.kind = "Closure" /\ job_status = "Completed") =>
                job_result = <<IF wjob.fails THEN JobErr(<<"e">>) ELSE JobOk(<<wjob.x + 1>>)>>)
    /\ [][/\ (wreq' = wreq /\ job_status' # job_status /\ wpc' # "dropped") =>
                StatusRank(job_status') = StatusRank(job_status) + 1
          /\ (job_status = "None" /\ job_status' = "Prepared") =>
                /\ wpc = "handler"
                /\ caller_state # <<>>
                /\ prepared' = <<Job_prepare(wjob, caller_state[1].data).prepared>>
                /\ heap' = heap
          /\ (job_status = "Completed" /\ wreq' = wreq /\ wpc' # "dropped") =>
                /\ job_status' = "Completed"
                /\ job_result' = job_result
                /\ wreq \in DOMAIN heap => heap'[wreq] = heap[wreq]
          /\ (job_status = "Prepared" /\ wreq' = wreq /\ wreq \in DOMAIN heap) =>
                heap'[wreq] = heap[wreq]]_vars

\* TestJob has completed: prepared in the handler, run once on the pool.
C17_Witness ==
    /\ job_status = "Completed"
    /\ wjob.kind = "TestJob"
    /\ wjob.x = 41
    /\ heap[wreq] = 42
    /\ job_result = <<JobOk(<<>>)>>
    /\ wpc = "submitted"

\* ---- the State through the chain

\* The data of d1 is all in d2, unchanged.
Keeps(d1, d2) == \A T \in DOMAIN d1 : T \in DOMAIN d2 /\ d2[T] = d1[T]

\* C18: one State goes through a request's dispatch. What the extractors put
\* in it is there, unchanged, until the handler has it; a middleware that
\* continues passes on the State it received, with at most its own data
\* added; a pending asynchronous middleware holds it unchanged; the handler
\* returns it with nothing added; and the State returned with the response
\* is the request's State.
C18_OneState ==
    /\ []((pc \in {"chain", "lazy"} /\ matched.outcome = "Matched") =>
            /\ state.id = 1
            /\ Keeps(QueryExtraction.data, state.data)
            /\ DOMAIN state.data \ DOMAIN QueryExtraction.data \subseteq {"MiddlewareStateData"})
    /\ []((pc = "done" /\ matched.outcome = "Matched") =>
            /\ state.id = 1
            /\ DOMAIN state.data \subseteq
                  DOMAIN QueryExtraction.data \cup {"MiddlewareStateData"}
            /\ Keeps(state.data, [T \in DOMAIN QueryExtraction.data \cup {"MiddlewareStateData"} |->
                                    IF T \in DOMAIN QueryExtraction.data
                                    THEN QueryExtraction.data[T] ELSE [i |-> 10]]))
    /\ [][(pc \in {"chain", "lazy"}) =>
             /\ state'.id = state.id
             /\ pc = "lazy" => state' = state
             /\ (Exec' # Exec /\ Exec'[Len(Exec')][1] = "middleware") =>
                   /\ Keeps(state.data, state'.data)
                   /\ DOMAIN state'.data \ DOMAIN state.data \subseteq {"MiddlewareStateData"}
             /\ (Exec' # Exec /\ Exec'[Len(Exec')][1] = "handler") =>
                   Keeps(state'.data, state.data)]_vars

\* /hello/world through [P2, P3]: the handler has the HelloParams the
\* extractor put in the State and MiddlewareWithStateData's data.
C18_Witness ==
    /\ pc = "chain"
    /\ pipeline_chain = <<"P2", "P3">>
    /\ Len(Exec) = 3
    /\ Head(cont) = <<"handler", "", "hello">>
    /\ state.data = [T \in {"HelloParams", "MiddlewareStateData"} |->
                        IF T = "HelloParams" THEN [name |-> "world"] ELSE [i |-> 10]]

\* ---- continuations

Times(unit) == Cardinality({i \in 1..Len(Exec) : Exec[i] = unit})

\* C19: for a request, every middleware of the chain and the handler has
\* started at most once; what is still to run is exactly the rest of the
\* chain after what has run, and nothing once the request is answered; and
\* every unit that starts takes itself off the continuation, which never
\* grows: a continuation is invoked at most once, whether the middleware
\* continues, short-circuits or continues after its asynchronous action.
C19_AtMostOnce ==
    /\ []((pc # "idle" /\ matched.outcome = "Matched") =>
            /\ \A i \in 1..Len(ExpectedUnits) : Times(ExpectedUnits[i]) <= 1
            /\ \A i \in 1..Len(Exec) : Times(Exec[i]) = 1
            /\ Cardinality({i \in 1..Len(Exec) : Exec[i][1] = "handler"}) <= 1
            /\ pc \in {"chain", "lazy"} => Exec \o cont = ExpectedUnits
            /\ pc \in {"done", "failed", "panicked"} => cont = <<>>)
    /\ [][pc # "idle" =>
             /\ Len(cont') <= Len(cont)
             /\ Exec' # Exec =>
                   /\ Len(Exec') = Len(Exec) + 1
                   /\ Exec'[Len(Exec')] = Head(cont)
                   /\ cont' \in {Tail(cont), <<>>}
             /\ Exec' = Exec => cont' = cont]_vars

\* [P3, P1] on a GET: AsyncMiddleware continued after its action,
\* ConditionalMiddleware continued, the handler ran, each once.
C19_Witness ==
    /\ pc = "done"
    /\ pipeline_chain = <<"P3", "P1">>
    /\ request[1].method = "Get"
    /\ Len(Exec) = 3
    /\ Times(<<"middleware", "P3", "AsyncMiddleware">>) = 1
    /\ Times(<<"middleware", "P1", "ConditionalMiddleware">>) = 1
    /\ Exec[3][1] = "handler"
    /\ cont = <<>>

\* ---- the chain of a route

\* The routes registered so far, each with its node and its place there.
RoutesOf(t) == UNION {{<<n, i>> : i \in 1..Len(t[n])} : n \in DOMAIN t}

\* C20: every route, registered in a scope or at the top, is bound to the
\* pipeline chain and the pipeline set build_router was given, as is every
\* builder open and every route builder in flight; a request is dispatched
\* through the chain of the route selected; a route, once registered, keeps
\* its chain and its pipeline set through every later registration; and no
\* step of a request changes the tree, the chain or the pipeline set.
C20_StaticChain ==
    /\ [](\A r \in RoutesOf(tree) :
            /\ tree[r[1]][r[2]].dispatcher.pipeline_chain = pipeline_chain
            /\ tree[r[1]][r[2]].dispatcher.pipelines = pipelines)
    /\ [](\A i \in 1..Len(builders) :
            /\ builders[i].pipeline_chain = pipeline_chain
            /\ builders[i].pipelines = pipelines)
    /\ [](\A i \in 1..Len(single) :
            /\ single[i].pipeline_chain = pipeline_chain
            /\ single[i].pipelines = pipelines)
    /\ []((pc \in {"chain", "lazy"} /\ matched.outcome = "Matched") =>
            Exec \o cont = resolve(Route.dispatcher.pipeline_chain, Route.dispatcher.pipelines)
                           \o <<<<"handler", "", Route.dispatcher.new_handler>>>>)
    /\ [][\A r \in RoutesOf(tree) :
            /\ r \in RoutesOf(tree')
            /\ tree'[r[1]][r[2]].dispatcher = tree[r[1]][r[2]].dispatcher]_vars
    /\ [][router_built =>
            /\ tree' = tree
            /\ pipeline_chain' = pipeline_chain
            /\ pipelines' = pipelines]_vars

\* POST /api/submit, registered inside scope("/api"), answered after the
\* two pipelines of the chain build_router was given.
C20_Witness ==
    /\ pc = "done"
    /\ Len(pipeline_chain) = 2
    /\ matched.outcome = "Matched"
    /\ matched.node = <<Static("api"), Static("submit")>>
    /\ Route.dispatcher.pipeline_chain = pipeline_chain
    /\ Len(Exec) >= 1
    /\ Exec[1][1] = "middleware"

\* ---- routes of one node

\* The definitions registered at a node that accept a method, by their
\* place in the closure.
Accepting(node, method) ==
    {k \in 1..Len(MatchDefs) :
        /\ MatchDefs[k] \in registered
        /\ NodeOf(MatchDefs[k]) = node
        /\ MatchDefs[k].method = method}

FirstRegistered(node, method) ==
    CHOOSE k \in Accepting(node, method) : \A j \in Accepting(node, method) : k <= j

\* C21: the route selected at a node accepts the request and no route
\* before it at the node does; it is the route of the first definition, in
\* the order the closure registered them, that was registered at the node
\* and accepts the request's method, whatever comes after it; and the
\* handler that runs is that route's.
C21_RegistrationOrder ==
    (pc # "idle" /\ matched.outcome = "Matched") =>
        /\ matched.route \in 1..Len(tree[matched.node])
        /\ is_match(Route, request[1])
        /\ \A j \in 1..(matched.route - 1) : ~is_match(tree[matched.node][j], request[1])
        /\ Accepting(matched.node, request[1].method) # {}
        /\ Route.dispatcher.new_handler =
              MatchDefs[FirstRegistered(matched.node, request[1].method)].handler
        /\ matched.route =
              Cardinality({k \in 1..Len(MatchDefs) :
                              /\ MatchDefs[k] \in registered
                              /\ NodeOf(MatchDefs[k]) = matched.node
                              /\ k <= FirstRegistered(matched.node, request[1].method)})
        /\ \A i \in 1..Len(Exec) :
              Exec[i][1] = "handler" => Exec[i][3] = Route.dispatcher.new_handler

\* GET /hello/world with both GET routes registered: index, registered
\* first, answered, and submit did not.
C21_Witness ==
    /\ pc = "done"
    /\ request[1] = Req("Get", <<"hello", "world">>, NoQuery)
    /\ matched.outcome = "Matched"
    /\ Cardinality(Accepting(matched.node, "Get")) = 2
    /\ matched.route = 1
    /\ HandlerRan
    /\ response[1].status = Ok

\* GET /hello/world when POST was registered before the GET route: the
\* second route is selected, the first having rejected the request.
C21_WitnessLater ==
    /\ pc = "done"
    /\ request[1] = Req("Get", <<"hello", "world">>, NoQuery)
    /\ matched.outcome = "Matched"
    /\ Len(tree[matched.node]) = 2
    /\ matched.route = 2
    /\ tree[matched.node][1].matcher = "Post"
    /\ response[1].status = Accepted

\* ---- the single-route builder

\* Every route of t is a route of u, at the same place and unchanged.
RoutesKept(t, u) ==
    \A n \in DOMAIN t :
        /\ n \in DOMAIN u
        /\ Len(u[n]) >= Len(t[n])
        /\ SubSeq(u[n], 1, Len(t[n])) = t[n]

NumRoutes(t) == Cardinality(RoutesOf(t))

\* C22: a step that replaces an extractor of the single-route builder
\* leaves its node, matcher, pipeline chain, pipeline set and delegation
\* flag as they were, changes one extractor only, and leaves the tree as it
\* was; while a single-route builder is open, and in every step that does
\* not end one, the routes are those there were; and the step that ends
\* the builder (to / to_new_handler) adds exactly one route, at the end of
\* the routes of the builder's node, made of the builder's matcher, chain,
\* pipeline set, extractors and delegation flag, and changes no other route
\* and no other node.
C22_BuilderFrame ==
    /\ [][(single # <<>> /\ single' # <<>>) =>
            /\ single'[1].node_builder = single[1].node_builder
            /\ single'[1].matcher = single[1].matcher
            /\ single'[1].pipeline_chain = single[1].pipeline_chain
            /\ single'[1].pipelines = single[1].pipelines
            /\ single'[1].delegation = single[1].delegation
            /\ single'[1].pe = single[1].pe \/ single'[1].qse = single[1].qse
            /\ tree' = tree
            /\ registered' = registered]_vars
    /\ [][~(single # <<>> /\ single' = <<>>) =>
            /\ RoutesOf(tree') = RoutesOf(tree)
            /\ RoutesKept(tree, tree')]_vars
    /\ [][(single # <<>> /\ single' = <<>>) =>
            /\ DOMAIN tree' = DOMAIN tree
            /\ NumRoutes(tree') = NumRoutes(tree) + 1
            /\ RoutesKept(tree, tree')
            /\ Len(tree'[single[1].node_builder]) = Len(tree[single[1].node_builder]) + 1
            /\ LET new == tree'[single[1].node_builder][Len(tree'[single[1].node_builder])]
               IN /\ new.matcher = single[1].matcher
                  /\ new.dispatcher.pipeline_chain = single[1].pipeline_chain
                  /\ new.dispatcher.pipelines = single[1].pipelines
                  /\ new.extractors = [pe |-> single[1].pe, qse |-> single[1].qse]
                  /\ new.delegation = single[1].delegation]_vars
    /\ [](\A i \in 1..Len(single) :
            /\ single[i].delegation = "Internal"
            /\ single[i].node_builder \in DOMAIN tree)
    /\ [](NumRoutes(tree) = Cardinality(registered))

\* The builder of GET /hello/:name after with_path_extractor::<HelloParams>:
\* the extractor replaced, the node there, no route at it yet.
C22_Witness ==
    /\ single # <<>>
    /\ single[1].pe = "HelloParams"
    /\ single[1].qse = NoopQueryStringExtractor
    /\ single[1].matcher = "Get"
    /\ single[1].node_builder = <<Static("hello"), Dynamic("name")>>
    /\ tree[single[1].node_builder] = <<>>
    /\ Len(pipeline_chain) = 2
    /\ single[1].pipeline_chain = pipeline_chain

\* GET /add after with_query_string_extractor::<AddParams> and to: one
\* route at the node, with the extractor that replaced the default.
C22_WitnessAdded ==
    /\ single = <<>>
    /\ ~router_built
    /\ <<Static("add")>> \in DOMAIN tree
    /\ Len(tree[<<Static("add")>>]) = 1
    /\ tree[<<Static("add")>>][1].extractors.qse = "AddParams"
    /\ tree[<<Static("add")>>][1].extractors.pe = NoopPathExtractor
    /\ NumRoutes(tree) = 2

====
